---- MODULE Spec2Model ----
(***************************************************************************)
(* context_glyphdata.core: glyph_data_for_unicode turns the Unicode name   *)
(* of a codepoint into a camelCase glyph name with a script suffix.        *)
(*                                                                         *)
(* Python strings are TLA+ strings (Len, SubSeq and \o act on them),       *)
(* Python lists are sequences, Python sets are sets.  A session is a       *)
(* sequence of calls of glyph_data_for_unicode; the state keeps the first  *)
(* and the latest call, the locals of the latest call at its return, and   *)
(* the module-level set CASE_INDICATORS, which the function copies before  *)
(* it discards words from it.                                              *)
(***************************************************************************)
EXTENDS Integers, Sequences, FiniteSets, TLC

(***************************************************************************)
(* str helpers                                                             *)
(***************************************************************************)
UPPER == {"A","B","C","D","E","F","G","H","I","J","K","L","M",
          "N","O","P","Q","R","S","T","U","V","W","X","Y","Z"}

LOWER == {"a","b","c","d","e","f","g","h","i","j","k","l","m",
          "n","o","p","q","r","s","t","u","v","w","x","y","z"}

ToLower == [A |-> "a", B |-> "b", C |-> "c", D |-> "d", E |-> "e", F |-> "f",
            G |-> "g", H |-> "h", I |-> "i", J |-> "j", K |-> "k", L |-> "l",
            M |-> "m", N |-> "n", O |-> "o", P |-> "p", Q |-> "q", R |-> "r",
            S |-> "s", T |-> "t", U |-> "u", V |-> "v", W |-> "w", X |-> "x",
            Y |-> "y", Z |-> "z"]

ToUpper == [a |-> "A", b |-> "B", c |-> "C", d |-> "D", e |-> "E", f |-> "F",
            g |-> "G", h |-> "H", i |-> "I", j |-> "J", k |-> "K", l |-> "L",
            m |-> "M", n |-> "N", o |-> "O", p |-> "P", q |-> "Q", r |-> "R",
            s |-> "S", t |-> "T", u |-> "U", v |-> "V", w |-> "W", x |-> "X",
            y |-> "Y", z |-> "Z"]

\* s[i] of a str (1-based)
CharAt(s, i) == SubSeq(s, i, i)

\* s[i:] of a str, from the 1-based position i
StrFrom(s, i) == SubSeq(s, i, Len(s))

LowerChar(c) == IF c \in UPPER THEN ToLower[c] ELSE c

UpperChar(c) == IF c \in LOWER THEN ToUpper[c] ELSE c

RECURSIVE str_lower(_)
\* str.lower()
str_lower(s) ==
    IF s = "" THEN "" ELSE LowerChar(CharAt(s, 1)) \o str_lower(StrFrom(s, 2))

\* A variant of str_capitalize that joins words snake_case fashion
str_capitalize_snake(s) == IF s = "" THEN "" ELSE "_" \o str_lower(s)

\* str.capitalize(): first character upper, the rest lower
str_capitalize(s) ==
    IF s = "" THEN "" ELSE UpperChar(CharAt(s, 1)) \o str_lower(StrFrom(s, 2))

\* str.isupper(): at least one cased character and no lowercase one
str_isupper(s) ==
    /\ \E i \in 1..Len(s) : CharAt(s, i) \in UPPER
    /\ \A i \in 1..Len(s) : CharAt(s, i) \notin LOWER

\* all(c.isalpha() for c in s)
all_isalpha(s) == \A i \in 1..Len(s) : CharAt(s, i) \in UPPER \cup LOWER

\* str.startswith(p)
str_startswith(s, p) == Len(p) <= Len(s) /\ SubSeq(s, 1, Len(p)) = p

\* str.endswith(p)
str_endswith(s, p) ==
    Len(p) <= Len(s) /\ SubSeq(s, Len(s) - Len(p) + 1, Len(s)) = p

\* sub in s, for strs
str_contains(s, sub) ==
    \E i \in 1..(Len(s) - Len(sub) + 1) : SubSeq(s, i, i + Len(sub) - 1) = sub

RECURSIVE SplitOn(_, _, _, _)
\* The pieces of s between occurrences of the one-character separator sep,
\* empty pieces included: cur is the piece being read, acc the pieces read.
SplitOn(s, sep, cur, acc) ==
    IF s = "" THEN Append(acc, cur)
    ELSE IF CharAt(s, 1) = sep
         THEN SplitOn(StrFrom(s, 2), sep, "", Append(acc, cur))
         ELSE SplitOn(StrFrom(s, 2), sep, cur \o CharAt(s, 1), acc)

\* str.split(sep) with an explicit separator: empty pieces are kept
str_split_sep(s, sep) == SplitOn(s, sep, "", <<>>)

\* str.split() without a separator: runs of whitespace separate, and no
\* empty piece is returned
str_split(s) == SelectSeq(SplitOn(s, " ", "", <<>>), LAMBDA w : w # "")

\* x in parts, for a list
InList(x, parts) == \E i \in 1..Len(parts) : parts[i] = x

\* [p for p in parts if p not in drop]
Without(parts, drop) == SelectSeq(parts, LAMBDA p : p \notin drop)

HexDigit == <<"0","1","2","3","4","5","6","7","8","9","A","B","C","D","E","F">>

HexDigitLower == <<"0","1","2","3","4","5","6","7","8","9","a","b","c","d","e","f">>

RECURSIVE HexLower(_)
\* format(n, "x"): a variant of HexUpper with lowercase digits
HexLower(n) ==
    IF n < 16 THEN HexDigitLower[n + 1]
    ELSE HexLower(n \div 16) \o HexDigitLower[(n % 16) + 1]

RECURSIVE HexUpper(_)
\* format(n, "X")
HexUpper(n) ==
    IF n < 16 THEN HexDigit[n + 1]
    ELSE HexUpper(n \div 16) \o HexDigit[(n % 16) + 1]

\* A variant of ZeroPad that pads nothing: the format "X" in place of "04X"
ZeroPad_none(s, w) == s

RECURSIVE ZeroPad(_, _)
\* Left padding with "0" to a width of at least w
ZeroPad(s, w) == IF Len(s) >= w THEN s ELSE ZeroPad("0" \o s, w)

\* f"uni{decimal_unicode:04X}"
FallbackName(decimal_unicode) == "uni" \o ZeroPad(HexUpper(decimal_unicode), 4)


(***************************************************************************)
(* Module-level tables                                                     *)
(***************************************************************************)
\* A variant of SCRIPT_SUFFIXES in which TAI has the suffix of THAI
SCRIPT_SUFFIXES_shared == <<
    <<"ARABIC", "-ar">>, <<"LATIN", "-lat">>, <<"GREEK", "-gr">>,
    <<"CYRILLIC", "-cyr">>, <<"HEBREW", "-heb">>, <<"ARMENIAN", "-arm">>,
    <<"DEVANAGARI", "-dev">>, <<"BENGALI", "-ben">>, <<"GURMUKHI", "-gur">>,
    <<"GUJARATI", "-guj">>, <<"ORIYA", "-ori">>, <<"TAMIL", "-tam">>,
    <<"TELUGU", "-tel">>, <<"KANNADA", "-kan">>, <<"MALAYALAM", "-mal">>,
    <<"SINHALA", "-sin">>, <<"GRANTHA", "-gran">>, <<"BRAHMI", "-brah">>,
    <<"KAITHI", "-kthi">>, <<"SHARADA", "-shrd">>, <<"BHAIKSUKI", "-bhks">>,
    <<"KHUDAWADI", "-sind">>, <<"THAI", "-th">>, <<"LAO", "-lao">>,
    <<"MYANMAR", "-mya">>, <<"KHMER", "-khm">>, <<"JAVANESE", "-java">>,
    <<"BALINESE", "-bali">>, <<"CHAM", "-cham">>, <<"TIBETAN", "-tib">>,
    <<"LEPCHA", "-lepc">>, <<"LIMBU", "-limb">>, <<"HAN", "-han">>,
    <<"HANGUL", "-ko">>, <<"HIRAGANA", "-hira">>, <<"KATAKANA", "-kata">>,
    <<"BOPOMOFO", "-bop">>, <<"YI", "-yi">>, <<"ETHIOPIC", "-eth">>,
    <<"VAI", "-vai">>, <<"BAMUM", "-bam">>, <<"ADLAM", "-adlm">>,
    <<"NKO", "-nko">>, <<"TIFINAGH", "-tfng">>, <<"OSMANYA", "-osma">>,
    <<"CHEROKEE", "-chr">>, <<"CANADIAN", "-can">>, <<"DESERET", "-dsrt">>,
    <<"OSAGE", "-osge">>, <<"MONGOLIAN", "-mon">>, <<"PHAGS-PA", "-phag">>,
    <<"GEORGIAN", "-geo">>, <<"GLAGOLITIC", "-glag">>, <<"COPTIC", "-cop">>,
    <<"OGHAM", "-ogh">>, <<"RUNIC", "-run">>, <<"GOTHIC", "-goth">>,
    <<"CUNEIFORM", "-xsux">>, <<"EGYPTIAN", "-egy">>, <<"ANATOLIAN", "-hluw">>,
    <<"LINEAR", "-lin">>, <<"CYPRIOT", "-cprt">>, <<"PHOENICIAN", "-phnx">>,
    <<"ARAMAIC", "-arc">>, <<"AVESTAN", "-avst">>, <<"UGARITIC", "-ugar">>,
    <<"DUPLOYAN", "-dupl">>, <<"MENDE", "-men">>, <<"MIAO", "-plrd">>,
    <<"SAURASHTRA", "-saur">>, <<"HENTAIGANA", "-hent">>, <<"MASARAM", "-gonm">>,
    <<"GUNJALA", "-gong">>, <<"CYPRO-MINOAN", "-cpmn">>, <<"TANGUT", "-tang">>,
    <<"NUSHU", "-nshu">>, <<"CAUCASIAN ALBANIAN", "-aghb">>, <<"MRO", "-mroo">>,
    <<"TAI", "-th">>, <<"OLD", "-old">>
>>

\* The dict SCRIPT_SUFFIXES, as its items in insertion order.
SCRIPT_SUFFIXES == <<
    <<"ARABIC", "-ar">>, <<"LATIN", "-lat">>, <<"GREEK", "-gr">>,
    <<"CYRILLIC", "-cyr">>, <<"HEBREW", "-heb">>, <<"ARMENIAN", "-arm">>,
    <<"DEVANAGARI", "-dev">>, <<"BENGALI", "-ben">>, <<"GURMUKHI", "-gur">>,
    <<"GUJARATI", "-guj">>, <<"ORIYA", "-ori">>, <<"TAMIL", "-tam">>,
    <<"TELUGU", "-tel">>, <<"KANNADA", "-kan">>, <<"MALAYALAM", "-mal">>,
    <<"SINHALA", "-sin">>, <<"GRANTHA", "-gran">>, <<"BRAHMI", "-brah">>,
    <<"KAITHI", "-kthi">>, <<"SHARADA", "-shrd">>, <<"BHAIKSUKI", "-bhks">>,
    <<"KHUDAWADI", "-sind">>, <<"THAI", "-th">>, <<"LAO", "-lao">>,
    <<"MYANMAR", "-mya">>, <<"KHMER", "-khm">>, <<"JAVANESE", "-java">>,
    <<"BALINESE", "-bali">>, <<"CHAM", "-cham">>, <<"TIBETAN", "-tib">>,
    <<"LEPCHA", "-lepc">>, <<"LIMBU", "-limb">>, <<"HAN", "-han">>,
    <<"HANGUL", "-ko">>, <<"HIRAGANA", "-hira">>, <<"KATAKANA", "-kata">>,
    <<"BOPOMOFO", "-bop">>, <<"YI", "-yi">>, <<"ETHIOPIC", "-eth">>,
    <<"VAI", "-vai">>, <<"BAMUM", "-bam">>, <<"ADLAM", "-adlm">>,
    <<"NKO", "-nko">>, <<"TIFINAGH", "-tfng">>, <<"OSMANYA", "-osma">>,
    <<"CHEROKEE", "-chr">>, <<"CANADIAN", "-can">>, <<"DESERET", "-dsrt">>,
    <<"OSAGE", "-osge">>, <<"MONGOLIAN", "-mon">>, <<"PHAGS-PA", "-phag">>,
    <<"GEORGIAN", "-geo">>, <<"GLAGOLITIC", "-glag">>, <<"COPTIC", "-cop">>,
    <<"OGHAM", "-ogh">>, <<"RUNIC", "-run">>, <<"GOTHIC", "-goth">>,
    <<"CUNEIFORM", "-xsux">>, <<"EGYPTIAN", "-egy">>, <<"ANATOLIAN", "-hluw">>,
    <<"LINEAR", "-lin">>, <<"CYPRIOT", "-cprt">>, <<"PHOENICIAN", "-phnx">>,
    <<"ARAMAIC", "-arc">>, <<"AVESTAN", "-avst">>, <<"UGARITIC", "-ugar">>,
    <<"DUPLOYAN", "-dupl">>, <<"MENDE", "-men">>, <<"MIAO", "-plrd">>,
    <<"SAURASHTRA", "-saur">>, <<"HENTAIGANA", "-hent">>, <<"MASARAM", "-gonm">>,
    <<"GUNJALA", "-gong">>, <<"CYPRO-MINOAN", "-cpmn">>, <<"TANGUT", "-tang">>,
    <<"NUSHU", "-nshu">>, <<"CAUCASIAN ALBANIAN", "-aghb">>, <<"MRO", "-mroo">>,
    <<"TAI", "-tai">>, <<"OLD", "-old">>
>>

DROP_CATEGORIES == {"LETTER", "MARK", "NUMBER", "PUNCTUATION", "SYMBOL",
                    "SEPARATOR", "DIGIT", "SIGN", "LIGATURE", "SYLLABLE",
                    "RADICAL", "IDEOGRAPH", "CHARACTER", "ACCENT", "SUNG"}

\* The value the module gives the set CASE_INDICATORS when it is loaded.
CASE_INDICATORS_loaded == {"CAPITAL", "SMALL"}

(***************************************************************************)
(* glyph_data_for_unicode, block by block                                  *)
(***************************************************************************)
\* len(script.split()) of an item of SCRIPT_SUFFIXES
WordCount(item) == Len(str_split(item[1]))

RECURSIVE SortedFrom(_, _)
\* The items with k words, then those with fewer: a stable sort by word
\* count, descending.
SortedFrom(items, k) ==
    IF k = 0 THEN <<>>
    ELSE SelectSeq(items, LAMBDA it : WordCount(it) = k) \o SortedFrom(items, k - 1)

\* sorted(SCRIPT_SUFFIXES.items(), key=lambda x: len(x[0].split()), reverse=True)
sorted_scripts ==
    LET counts == {WordCount(SCRIPT_SUFFIXES[i]) : i \in DOMAIN SCRIPT_SUFFIXES}
        most   == CHOOSE k \in counts : \A j \in counts : j <= k
    IN  SortedFrom(SCRIPT_SUFFIXES, most)

\* A variant of MatchesAtStart that finds script_parts anywhere in parts
MatchesAnywhere(parts, script_parts) ==
    \E k \in 0..(Len(parts) - Len(script_parts)) :
        SubSeq(parts, k + 1, k + Len(script_parts)) = script_parts

\* parts[: len(script_parts)] == script_parts, under len(script_parts) <= len(parts)
MatchesAtStart(parts, script_parts) ==
    /\ Len(script_parts) <= Len(parts)
    /\ SubSeq(parts, 1, Len(script_parts)) = script_parts

\* The loop over sorted_scripts: the first item whose words start parts.
DetectScript(parts) ==
    LET hits == {i \in DOMAIN sorted_scripts :
                    MatchesAtStart(parts, str_split(sorted_scripts[i][1]))}
    IN  IF hits = {}
        THEN [script_suffix |-> "", script_words_to_remove |-> <<>>]
        ELSE LET i == CHOOSE h \in hits : \A j \in hits : h <= j
             IN  [script_suffix |-> sorted_scripts[i][2],
                  script_words_to_remove |-> str_split(sorted_scripts[i][1])]

\* A variant of RemoveScriptWords that removes the designation at the head
\* of the name only
RemoveScriptWords_head(parts, script_words_to_remove) ==
    SubSeq(parts, Len(script_words_to_remove) + 1, Len(parts))

\* for word in script_words_to_remove: parts = [p for p in parts if p != word]
RemoveScriptWords(parts, script_words_to_remove) ==
    Without(parts, {script_words_to_remove[i] : i \in DOMAIN script_words_to_remove})


\* The words the category filter must keep (parts_to_keep), decided on the
\* parts left after the script words are removed.
PartsToKeep(parts, name, script_suffix) ==
    LET scripted == script_suffix # ""
        is_small_variant == InList("SMALL", parts) /\ ~scripted
        is_symbol_for == InList("SYMBOL", parts) /\ InList("FOR", parts)
        is_punctuation_variant == InList("PUNCTUATION", parts) /\ ~scripted
        is_small_capital == InList("SMALL", parts) /\ InList("CAPITAL", parts)
        is_symbol_variant == InList("SYMBOL", parts) /\ scripted
        is_accent_variant == InList("ACCENT", parts) /\ scripted
        is_punctuation_script_variant == InList("PUNCTUATION", parts) /\ scripted
        is_small_script_variant ==
            /\ InList("SMALL", parts)
            /\ scripted
            /\ ~InList("CAPITAL", parts)
            /\ ~InList("LETTER", parts)
            /\ ~InList("LIGATURE", parts)
        scripts_with_sign == {"-tai"}
    IN  (IF is_small_variant \/ is_small_capital \/ is_small_script_variant
         THEN {"SMALL"} ELSE {})
        \cup (IF is_symbol_for \/ is_symbol_variant THEN {"SYMBOL"} ELSE {})
        \cup (IF ~scripted /\ InList("SYMBOL", parts) THEN {"SYMBOL"} ELSE {})
        \cup (IF is_punctuation_variant \/ is_punctuation_script_variant
              THEN {"PUNCTUATION"} ELSE {})
        \cup (IF is_accent_variant THEN {"ACCENT"} ELSE {})
        \cup (IF InList("RADICAL", parts) THEN {"RADICAL"} ELSE {})
        \cup (IF InList("NUMBER", parts) THEN {"NUMBER"} ELSE {})
        \cup (IF InList("DIGIT", parts) THEN {"DIGIT"} ELSE {})
        \cup (IF InList("IDEOGRAPH", parts) THEN {"IDEOGRAPH"} ELSE {})
        \cup (IF InList("MARK", parts) /\ ~InList("LETTER", parts)
              THEN {"MARK"} ELSE {})
        \cup (IF scripted /\ InList("VOWEL", parts) THEN {"SIGN"} ELSE {})
        \cup (IF scripted /\ InList("SIGN", parts) /\ script_suffix \in scripts_with_sign
              THEN {"SIGN"} ELSE {})
        \cup (IF /\ scripted
                 /\ InList("MARK", parts)
                 /\ (str_contains(name, "LETTER") \/ str_contains(name, "SIGN"))
              THEN {"MARK"} ELSE {})
        \cup (IF ~scripted /\ InList("SIGN", parts) THEN {"SIGN"} ELSE {})

\* A variant of LetterSuffix that never adds "Letter": the caseless letter
\* of a cased script then gets the name of its small letter.
LetterSuffix_never(parts, script_suffix) == ""

\* A variant of LetterSuffix without the test of the script
LetterSuffix_any_script(parts, script_suffix) ==
    IF /\ script_suffix # ""
       /\ InList("LETTER", parts)
       /\ ~(InList("SMALL", parts) \/ InList("CAPITAL", parts))
       /\ script_suffix \notin {"-hira", "-kata"}
    THEN "Letter" ELSE ""

\* letter_suffix: "Letter" for a caseless letter of a script that has case
LetterSuffix(parts, script_suffix) ==
    LET scripts_with_case == {"-lat", "-gr", "-cyr", "-geo", "-glag", "-cop",
                              "-arm", "-chr", "-limb", "-phag"}
        has_case_indicator ==
            IF script_suffix \in {"-hira", "-kata"} THEN TRUE
            ELSE InList("SMALL", parts) \/ InList("CAPITAL", parts)
    IN  IF /\ script_suffix # ""
           /\ InList("LETTER", parts)
           /\ ~has_case_indicator
           /\ script_suffix \in scripts_with_case
        THEN "Letter" ELSE ""

\* A variant of SyllableSuffix that records no word
SyllableSuffix_none(parts) == ""

\* syllable_suffix
SyllableSuffix(parts) ==
    IF InList("SYLLABLE", parts) THEN "Syllable"
    ELSE IF InList("SYLLABICS", parts) THEN "Syllabics"
    ELSE ""

\* A variant of DropCategoryWords that keeps no category word
DropCategoryWords_all(parts, parts_to_keep) ==
    Without(parts, DROP_CATEGORIES \cup {"SYLLABICS"})

\* SYLLABICS leaves parts unless SYLLABLE is there too; then
\* parts = [p for p in parts if p not in DROP_CATEGORIES or p in parts_to_keep]
DropCategoryWords(parts, parts_to_keep) ==
    LET kept == IF ~InList("SYLLABLE", parts) /\ InList("SYLLABICS", parts)
                THEN Without(parts, {"SYLLABICS"}) ELSE parts
    IN  SelectSeq(kept, LAMBDA p : p \notin DROP_CATEGORIES \/ p \in parts_to_keep)

\* A variant of HangulPosition that records no position
HangulPosition_none(name, script_suffix) == ""

\* hangul_position, read off the raw name
HangulPosition(name, script_suffix) ==
    IF script_suffix # "-ko" THEN ""
    ELSE IF str_contains(name, "CHOSEONG") THEN "Cho"
    ELSE IF str_contains(name, "JUNGSEONG") THEN "Jung"
    ELSE IF str_contains(name, "JONGSEONG") THEN "Jong"
    ELSE ""

\* The position words leave the parts of a Hangul name.
RemoveHangulPosition(parts, script_suffix) ==
    IF script_suffix = "-ko"
    THEN Without(parts, {"CHOSEONG", "JUNGSEONG", "JONGSEONG"})
    ELSE parts

\* A variant of CaseIndicatorsToRemove that keeps no case indicator
CaseIndicatorsToRemove_all(case_indicators, parts, script_suffix) == case_indicators

\* case_indicators_to_remove: a copy of CASE_INDICATORS, less what is kept.
\* parts are those left after the script words are removed.
CaseIndicatorsToRemove(case_indicators, parts, script_suffix) ==
    LET scripted == script_suffix # ""
        is_small_variant == InList("SMALL", parts) /\ ~scripted
        is_small_capital == InList("SMALL", parts) /\ InList("CAPITAL", parts)
        is_small_script_variant ==
            /\ InList("SMALL", parts)
            /\ scripted
            /\ ~InList("CAPITAL", parts)
            /\ ~InList("LETTER", parts)
            /\ ~InList("LIGATURE", parts)
    IN  ((case_indicators
          \ (IF is_small_variant \/ is_small_capital \/ is_small_script_variant
             THEN {"SMALL"} ELSE {}))
          \ (IF is_small_capital THEN {"CAPITAL"} ELSE {}))
          \ (IF script_suffix \in {"-hira", "-kata"} THEN {"SMALL"} ELSE {})

\* A variant of ConnectingWordsTentative that has AND and OR too
ConnectingWordsTentative_and_or(parts) ==
    {"WITH", "OF", "AND", "OR"}
    \cup (IF InList("SYMBOL", parts) /\ InList("FOR", parts) THEN {} ELSE {"FOR"})
    \cup (IF InList("SYLLABLE", parts) \/ InList("SYLLABICS", parts)
          THEN {} ELSE {"TO", "THE"})

\* A variant of ConnectingWordsTentative that has FOR whatever the name
ConnectingWordsTentative_for(parts) ==
    {"WITH", "OF", "FOR"}
    \cup (IF InList("SYLLABLE", parts) \/ InList("SYLLABICS", parts)
          THEN {} ELSE {"TO", "THE"})

\* connecting_words_tentative, from the parts left after the script words
\* are removed
ConnectingWordsTentative(parts) ==
    LET is_symbol_for == InList("SYMBOL", parts) /\ InList("FOR", parts)
        has_syllable == InList("SYLLABLE", parts) \/ InList("SYLLABICS", parts)
    IN  {"WITH", "OF"}
        \cup (IF ~is_symbol_for THEN {"FOR"} ELSE {})
        \cup (IF ~has_syllable THEN {"TO", "THE"} ELSE {})

\* A variant of RemoveConnectingWords that moves the connecting words to
\* the end of the list
RemoveConnectingWords_moved(parts, connecting_words_tentative) ==
    LET filtered == Without(parts, connecting_words_tentative)
    IN  IF filtered # <<>>
        THEN filtered \o SelectSeq(parts, LAMBDA p : p \in connecting_words_tentative)
        ELSE parts

\* A variant of RemoveConnectingWords that removes them whatever is left
RemoveConnectingWords_always(parts, connecting_words_tentative) ==
    Without(parts, connecting_words_tentative)

\* The connecting words leave parts only if another word stays.
RemoveConnectingWords(parts, connecting_words_tentative) ==
    LET content_words == Without(parts, connecting_words_tentative)
    IN  IF Len(content_words) > 0 THEN content_words ELSE parts

RECURSIVE ExpandHyphens(_)
\* expanded_parts: every part with a hyphen gives its pieces
ExpandHyphens(parts) ==
    IF parts = <<>> THEN <<>>
    ELSE (IF str_contains(Head(parts), "-")
          THEN str_split_sep(Head(parts), "-")
          ELSE <<Head(parts)>>) \o ExpandHyphens(Tail(parts))

RECURSIVE PrefixBefore(_, _)
\* The words of parts before the first w, all of them when there is no w
PrefixBefore(parts, w) ==
    IF parts = <<>> \/ Head(parts) = w THEN <<>>
    ELSE <<Head(parts)>> \o PrefixBefore(Tail(parts), w)

\* A variant of RunicParts that drops the single letters of every Runic name
RunicParts_no_single(parts, script_suffix) ==
    IF script_suffix # "-run" THEN parts
    ELSE SelectSeq(ExpandHyphens(parts), LAMBDA p : Len(p) > 1)

\* A variant of RunicParts that cuts a Cuneiform name at its first TIMES
RunicParts_times(parts, script_suffix) ==
    IF script_suffix = "-xsux" THEN PrefixBefore(parts, "TIMES")
    ELSE IF script_suffix # "-run" THEN parts
    ELSE LET expanded == ExpandHyphens(parts)
             multi_letter_parts == SelectSeq(expanded, LAMBDA p : Len(p) > 1)
             single_letter_parts == SelectSeq(expanded, LAMBDA p : Len(p) = 1)
             non_descriptor_multi ==
                 Without(multi_letter_parts, {"DOTTED", "LONG", "BRANCH", "SHORT", "GOLDEN"})
         IN  IF /\ Len(expanded) >= 2
                /\ non_descriptor_multi # <<>>
                /\ single_letter_parts # <<>>
             THEN multi_letter_parts ELSE expanded

\* A variant of RunicParts that drops the single letters only when no
\* multi-letter part is a descriptor
RunicParts_all_multi(parts, script_suffix) ==
    IF script_suffix # "-run" THEN parts
    ELSE LET expanded == ExpandHyphens(parts)
             multi_letter_parts == SelectSeq(expanded, LAMBDA p : Len(p) > 1)
             single_letter_parts == SelectSeq(expanded, LAMBDA p : Len(p) = 1)
             descriptors == {"DOTTED", "LONG", "BRANCH", "SHORT", "GOLDEN"}
         IN  IF /\ Len(expanded) >= 2
                /\ multi_letter_parts # <<>>
                /\ \A k \in DOMAIN multi_letter_parts : multi_letter_parts[k] \notin descriptors
                /\ single_letter_parts # <<>>
             THEN multi_letter_parts ELSE expanded

\* The Runic block: hyphenated parts are split, and single letters leave
\* when a multi-letter part that is no descriptor stands beside them.
RunicParts(parts, script_suffix) ==
    IF script_suffix # "-run" THEN parts
    ELSE LET expanded == ExpandHyphens(parts)
             multi_letter_parts == SelectSeq(expanded, LAMBDA p : Len(p) > 1)
             single_letter_parts == SelectSeq(expanded, LAMBDA p : Len(p) = 1)
             descriptors == {"DOTTED", "LONG", "BRANCH", "SHORT", "GOLDEN"}
             non_descriptor_multi == Without(multi_letter_parts, descriptors)
         IN  IF /\ Len(expanded) >= 2
                /\ non_descriptor_multi # <<>>
                /\ single_letter_parts # <<>>
             THEN multi_letter_parts ELSE expanded

\* A variant of IsCombining without the test of the script
IsCombining_any_script(name, script_suffix) == str_contains(name, "COMBINING")

\* is_combining
IsCombining(name, script_suffix) ==
    str_contains(name, "COMBINING") /\ script_suffix = ""

\* COMBINING leaves the parts of a combining mark without a script.
RemoveCombining(parts, is_combining) ==
    IF is_combining THEN Without(parts, {"COMBINING"}) ELSE parts

\* A variant of HebrewSuffix that knows the accents only
HebrewSuffix_accent_only(parts, script_suffix) ==
    IF script_suffix = "-heb" /\ InList("ACCENT", parts) THEN "Accent" ELSE ""

\* hebrew_suffix
HebrewSuffix(parts, script_suffix) ==
    IF script_suffix # "-heb" THEN ""
    ELSE IF InList("ACCENT", parts) THEN "Accent"
    ELSE IF InList("PUNCTUATION", parts) THEN "Punctuation"
    ELSE ""

\* ACCENT, or else PUNCTUATION, leaves the parts of a Hebrew name.
RemoveHebrew(parts, script_suffix) ==
    IF script_suffix # "-heb" THEN parts
    ELSE IF InList("ACCENT", parts) THEN Without(parts, {"ACCENT"})
    ELSE IF InList("PUNCTUATION", parts) THEN Without(parts, {"PUNCTUATION"})
    ELSE parts

\* A variant of IsMultiLetterLigature without the test of the script
IsMultiLetterLigature_any_script(first_part, is_capital, script_suffix) ==
    /\ Len(first_part) \in {2, 3}
    /\ str_isupper(first_part)
    /\ is_capital
    /\ all_isalpha(first_part)

\* is_multi_letter_ligature
IsMultiLetterLigature(first_part, is_capital, script_suffix) ==
    /\ Len(first_part) \in {2, 3}
    /\ str_isupper(first_part)
    /\ is_capital
    /\ all_isalpha(first_part)
    /\ script_suffix = "-lat"

RECURSIVE CapitalizeAll(_)
\* for part in parts: glyph_name += part.capitalize()
CapitalizeAll(parts) ==
    IF parts = <<>> THEN ""
    ELSE str_capitalize(Head(parts)) \o CapitalizeAll(Tail(parts))

\* A variant of CamelCase that capitalizes the first word like the others
CamelCase_pascal(parts, is_capital, script_suffix) == CapitalizeAll(parts)

\* The camelCase body of a non-empty list of parts
CamelCase(parts, is_capital, script_suffix) ==
    LET first_part == parts[1]
        first_word == IF IsMultiLetterLigature(first_part, is_capital, script_suffix)
                      THEN first_part
                      ELSE IF is_capital THEN str_capitalize(first_part)
                      ELSE str_lower(first_part)
    IN  first_word \o CapitalizeAll(Tail(parts))

\* A variant of WithSuffixWords that appends the syllable word last
WithSuffixWords_syllable_last(body, is_combining, hebrew_suffix, syllable_suffix, letter_suffix, hangul_position) ==
    body \o (IF is_combining THEN "Combining" ELSE "")
         \o hebrew_suffix \o letter_suffix \o hangul_position \o syllable_suffix

\* The suffix words in their order, after the body
WithSuffixWords(body, is_combining, hebrew_suffix, syllable_suffix, letter_suffix, hangul_position) ==
    body \o (IF is_combining THEN "Combining" ELSE "")
         \o hebrew_suffix \o syllable_suffix \o letter_suffix \o hangul_position

\* A variant of Tanween that rewrites whatever the script
Tanween_any_script(glyph_name, script_suffix) ==
    IF str_endswith(glyph_name, "tan")
    THEN SubSeq(glyph_name, 1, Len(glyph_name) - 3) \o "Tanween"
    ELSE glyph_name

\* The Arabic tanween rewrite
Tanween(glyph_name, script_suffix) ==
    IF script_suffix = "-ar" /\ str_endswith(glyph_name, "tan")
    THEN SubSeq(glyph_name, 1, Len(glyph_name) - 3) \o "Tanween"
    ELSE glyph_name


(***************************************************************************)
(* Python values of the lookup: a str or None for a field, and None or a   *)
(* dict (its keys, and its "Name" value when it has one) for ucd_data.     *)
(***************************************************************************)
PyStr(s) == [type |-> "str", val |-> s]

PyNone == [type |-> "NoneType", val |-> ""]

\* ucd_data returned None
UcdNone == [is_none |-> TRUE, keys |-> {}, Name |-> PyNone]

\* ucd_data returned a dict with these keys; Name is read only if it is a key
UcdDict(keys, name_value) == [is_none |-> FALSE, keys |-> keys, Name |-> name_value]

\* ucd_data returned the record of a named character
UcdNamed(name) == UcdDict({"Name", "General_Category"}, PyStr(name))

\* not ucd or "Name" not in ucd
NoUsableName(ucd) == ucd.is_none \/ ucd.keys = {} \/ "Name" \notin ucd.keys

\* The locals of a call that returned or raised before it split the name
NoLocals ==
    [entered |-> FALSE, name |-> "", parts_split |-> <<>>, is_capital |-> FALSE,
     script_suffix |-> "", script_words_to_remove |-> <<>>, parts_script |-> <<>>,
     parts_to_keep |-> {}, letter_suffix |-> "", syllable_suffix |-> "",
     parts_category |-> <<>>, hangul_position |-> "", parts_hangul |-> <<>>,
     case_indicators_to_remove |-> {}, parts_case |-> <<>>,
     connecting_words_tentative |-> {}, parts_connecting |-> <<>>,
     parts_runic |-> <<>>, is_combining |-> FALSE, parts_combining |-> <<>>,
     hebrew_suffix |-> "", parts |-> <<>>, body |-> "", glyph_name |-> ""]

\* parts = name.split(); is_capital; the script detection
AtScriptDetected(name) ==
    LET parts_split == str_split(name)
        detected == DetectScript(parts_split)
    IN  [NoLocals EXCEPT !.entered = TRUE,
                         !.name = name,
                         !.parts_split = parts_split,
                         !.is_capital = InList("CAPITAL", parts_split),
                         !.script_suffix = detected.script_suffix,
                         !.script_words_to_remove = detected.script_words_to_remove]

\* The script words removed, and what is computed from parts before the
\* first category word is dropped
AtFlags(l, case_indicators) ==
    LET parts == RemoveScriptWords(l.parts_split, l.script_words_to_remove)
    IN  [l EXCEPT !.parts_script = parts,
                  !.parts_to_keep = PartsToKeep(parts, l.name, l.script_suffix),
                  !.letter_suffix = LetterSuffix(parts, l.script_suffix),
                  !.syllable_suffix = SyllableSuffix(parts),
                  !.hangul_position = HangulPosition(l.name, l.script_suffix),
                  !.case_indicators_to_remove =
                      CaseIndicatorsToRemove(case_indicators, parts, l.script_suffix),
                  !.connecting_words_tentative = ConnectingWordsTentative(parts),
                  !.is_combining = IsCombining(l.name, l.script_suffix)]

\* parts = [p for p in parts if p not in DROP_CATEGORIES or p in parts_to_keep]
AtCategory(l) ==
    [l EXCEPT !.parts_category = DropCategoryWords(l.parts_script, l.parts_to_keep)]

AtHangul(l) ==
    [l EXCEPT !.parts_hangul = RemoveHangulPosition(l.parts_category, l.script_suffix)]

AtCase(l) ==
    [l EXCEPT !.parts_case = Without(l.parts_hangul, l.case_indicators_to_remove)]

AtConnecting(l) ==
    [l EXCEPT !.parts_connecting =
                  RemoveConnectingWords(l.parts_case, l.connecting_words_tentative)]

AtRunic(l) ==
    [l EXCEPT !.parts_runic = RunicParts(l.parts_connecting, l.script_suffix)]

AtCombining(l) ==
    [l EXCEPT !.parts_combining = RemoveCombining(l.parts_runic, l.is_combining)]

AtHebrew(l) ==
    [l EXCEPT !.hebrew_suffix = HebrewSuffix(l.parts_combining, l.script_suffix),
              !.parts = RemoveHebrew(l.parts_combining, l.script_suffix)]

\* The camel-cased words; nothing when no word is left
AtCasing(l) ==
    [l EXCEPT !.body = IF l.parts = <<>> THEN ""
                       ELSE CamelCase(l.parts, l.is_capital, l.script_suffix)]

\* A variant of AtReturn that leaves out glyph_name += script_suffix
AtReturn_unsuffixed(l, decimal_unicode) ==
    [l EXCEPT !.glyph_name =
                  IF l.parts = <<>> THEN FallbackName(decimal_unicode)
                  ELSE Tanween(WithSuffixWords(l.body, l.is_combining,
                                               l.hebrew_suffix, l.syllable_suffix,
                                               l.letter_suffix, l.hangul_position),
                               l.script_suffix)]

\* The value returned: the fallback when no word is left, else the body with
\* its suffix words, the tanween rewrite and the script suffix
AtReturn(l, decimal_unicode) ==
    [l EXCEPT !.glyph_name =
                  IF l.parts = <<>> THEN FallbackName(decimal_unicode)
                  ELSE Tanween(WithSuffixWords(l.body, l.is_combining,
                                               l.hebrew_suffix, l.syllable_suffix,
                                               l.letter_suffix, l.hangul_position),
                               l.script_suffix) \o l.script_suffix]

\* The locals of a call at its return, the name being a str
Locals(decimal_unicode, name, case_indicators) ==
    AtReturn(
      AtCasing(AtHebrew(AtCombining(AtRunic(AtConnecting(AtCase(AtHangul(
        AtCategory(AtFlags(AtScriptDetected(name), case_indicators))))))))),
      decimal_unicode)

\* glyph_data_for_unicode(decimal_unicode), with the answer ucd of the lookup
\* and the module-level CASE_INDICATORS: what it returns or raises, and its
\* locals.  name.split() raises AttributeError when Name is not a str.
glyph_data_for_unicode(decimal_unicode, ucd, case_indicators) ==
    IF NoUsableName(ucd)
    THEN [raised |-> "", ret |-> FallbackName(decimal_unicode), locals |-> NoLocals]
    ELSE IF ucd.Name.type # "str"
    THEN [raised |-> "AttributeError", ret |-> "", locals |-> NoLocals]
    ELSE LET l == Locals(decimal_unicode, ucd.Name.val, case_indicators)
         IN  [raised |-> "", ret |-> l.glyph_name, locals |-> l]


(***************************************************************************)
(* The lookup youseedee.ucd_data: what it answers for the codepoints of    *)
(* the model.  NAMED are characters with their Unicode names; UNNAMED are  *)
(* codepoints for which the lookup has no data, no Name, or a Name that    *)
(* is no name of a character.                                              *)
(***************************************************************************)
NAMED == <<
    <<\h0041, "LATIN CAPITAL LETTER A">>,
    <<\h0061, "LATIN SMALL LETTER A">>,
    <<\h00C6, "LATIN CAPITAL LETTER AE">>,
    <<\h00E6, "LATIN SMALL LETTER AE">>,
    <<\h0152, "LATIN CAPITAL LIGATURE OE">>,
    <<\h0153, "LATIN SMALL LIGATURE OE">>,
    <<\h00DF, "LATIN SMALL LETTER SHARP S">>,
    <<\h1E9E, "LATIN CAPITAL LETTER SHARP S">>,
    <<\h026A, "LATIN LETTER SMALL CAPITAL I">>,
    <<\hA7AE, "LATIN CAPITAL LETTER SMALL CAPITAL I">>,
    <<\h0242, "LATIN SMALL LETTER GLOTTAL STOP">>,
    <<\h0294, "LATIN LETTER GLOTTAL STOP">>,
    <<\h0627, "ARABIC LETTER ALEF">>,
    <<\h0622, "ARABIC LETTER ALEF WITH MADDA ABOVE">>,
    <<\h064B, "ARABIC FATHATAN">>,
    <<\h064E, "ARABIC FATHA">>,
    <<\h0618, "ARABIC SMALL FATHA">>,
    <<\h0391, "GREEK CAPITAL LETTER ALPHA">>,
    <<\h03C9, "GREEK SMALL LETTER OMEGA">>,
    <<\h03D9, "GREEK SMALL LETTER ARCHAIC KOPPA">>,
    <<\h03D8, "GREEK LETTER ARCHAIC KOPPA">>,
    <<\h03D0, "GREEK BETA SYMBOL">>,
    <<\h0411, "CYRILLIC CAPITAL LETTER BE">>,
    <<\h0431, "CYRILLIC SMALL LETTER BE">>,
    <<\h05D0, "HEBREW LETTER ALEF">>,
    <<\h059C, "HEBREW ACCENT GERESH">>,
    <<\h05F3, "HEBREW PUNCTUATION GERESH">>,
    <<\h059D, "HEBREW ACCENT GERESH MUQDAM">>,
    <<\h05F4, "HEBREW PUNCTUATION GERSHAYIM">>,
    <<\h0531, "ARMENIAN CAPITAL LETTER AYB">>,
    <<\h0905, "DEVANAGARI LETTER A">>,
    <<\h0901, "DEVANAGARI SIGN CANDRABINDU">>,
    <<\h13F9, "CHEROKEE SMALL LETTER YI">>,
    <<\h13F1, "CHEROKEE LETTER YI">>,
    <<\h13A0, "CHEROKEE LETTER A">>,
    <<\hA000, "YI SYLLABLE IT">>,
    <<\hA490, "YI RADICAL QOT">>,
    <<\hA473, "YI SYLLABLE YI">>,
    <<\h1276, "ETHIOPIC SYLLABLE TO">>,
    <<\h1325, "ETHIOPIC SYLLABLE THE">>,
    <<\h1450, "CANADIAN SYLLABICS TO">>,
    <<\h155E, "CANADIAN SYLLABICS THE">>,
    <<\h1100, "HANGUL CHOSEONG KIYEOK">>,
    <<\h1161, "HANGUL JUNGSEONG A">>,
    <<\h11A8, "HANGUL JONGSEONG KIYEOK">>,
    <<\h3131, "HANGUL LETTER KIYEOK">>,
    <<\h3041, "HIRAGANA LETTER SMALL A">>,
    <<\h3042, "HIRAGANA LETTER A">>,
    <<\h30A1, "KATAKANA LETTER SMALL A">>,
    <<\hA856, "PHAGS-PA LETTER SMALL A">>,
    <<\hA85D, "PHAGS-PA LETTER A">>,
    <<\h2D00, "GEORGIAN SMALL LETTER AN">>,
    <<\h10D0, "GEORGIAN LETTER AN">>,
    <<\h10A0, "GEORGIAN CAPITAL LETTER AN">>,
    <<\h1930, "LIMBU SMALL LETTER KA">>,
    <<\h1901, "LIMBU LETTER KA">>,
    <<\h16A0, "RUNIC LETTER FEHU FEOH FE F">>,
    <<\h16A1, "RUNIC LETTER V">>,
    <<\h16A9, "RUNIC LETTER OS O">>,
    <<\h16AC, "RUNIC LETTER LONG-BRANCH-OSS O">>,
    <<\h16AE, "RUNIC LETTER O">>,
    <<\h16C0, "RUNIC LETTER DOTTED-N">>,
    <<\h16AD, "RUNIC LETTER SHORT-TWIG-OSS O">>,
    <<\h12000, "CUNEIFORM SIGN A">>,
    <<\h12001, "CUNEIFORM SIGN A TIMES A">>,
    <<\h12002, "CUNEIFORM SIGN A TIMES BAD">>,
    <<\h120B7, "CUNEIFORM SIGN GA2">>,
    <<\h0300, "COMBINING GRAVE ACCENT">>,
    <<\h0303, "COMBINING TILDE">>,
    <<\h030A, "COMBINING RING ABOVE">>,
    <<\h0483, "COMBINING CYRILLIC TITLO">>,
    <<\h0060, "GRAVE ACCENT">>,
    <<\h007E, "TILDE">>,
    <<\h003A, "COLON">>,
    <<\h20A1, "COLON SIGN">>,
    <<\h0024, "DOLLAR SIGN">>,
    <<\h002B, "PLUS SIGN">>,
    <<\h0026, "AMPERSAND">>,
    <<\h0040, "COMMERCIAL AT">>,
    <<\h0020, "SPACE">>,
    <<\h002D, "HYPHEN-MINUS">>,
    <<\h003C, "LESS-THAN SIGN">>,
    <<\h0030, "DIGIT ZERO">>,
    <<\h0031, "DIGIT ONE">>,
    <<\h2227, "LOGICAL AND">>,
    <<\h2228, "LOGICAL OR">>,
    <<\h2A53, "DOUBLE LOGICAL AND">>,
    <<\h2A54, "DOUBLE LOGICAL OR">>,
    <<\h2474, "PARENTHESIZED DIGIT ONE">>,
    <<\h3220, "PARENTHESIZED IDEOGRAPH ONE">>,
    <<\h11052, "BRAHMI NUMBER ONE">>,
    <<\h11066, "BRAHMI DIGIT ZERO">>,
    <<\h1E6E2, "TAI YO LETTER UE">>,
    <<\h1E6E3, "TAI YO SIGN UE">>,
    <<\h1950, "TAI LE LETTER KA">>,
    <<\h10300, "OLD ITALIC LETTER A">>,
    <<\h10530, "CAUCASIAN ALBANIAN LETTER ALT">>,
    <<\h111C8, "SHARADA SEPARATOR">>,
    <<\h11183, "SHARADA LETTER A">>,
    <<\h0F0A, "TIBETAN MARK BKA- SHOG YIG MGO">>,
    <<\h0F40, "TIBETAN LETTER KA">>,
    <<\h2400, "SYMBOL FOR NULL">>,
    <<\h093E, "DEVANAGARI VOWEL SIGN AA">>,
    <<\h0906, "DEVANAGARI LETTER AA">>,
    <<\h0E82, "LAO LETTER KHO SUNG">>,
    <<\h0E84, "LAO LETTER KHO TAM">>,
    <<\h0E01, "THAI CHARACTER KO KAI">>,
    <<\h02B0, "MODIFIER LETTER SMALL H">>,
    <<\h029D, "LATIN SMALL LETTER J WITH CROSSED-TAIL">>,
    <<\h1F00, "GREEK SMALL LETTER ALPHA WITH PSILI">>,
    <<\h1D400, "MATHEMATICAL BOLD CAPITAL A">>,
    <<\h1D41A, "MATHEMATICAL BOLD SMALL A">>,
    <<\hFE50, "SMALL COMMA">>,
    <<\h002C, "COMMA">>,
    <<\hFF21, "FULLWIDTH LATIN CAPITAL LETTER A">>,
    <<\h0660, "ARABIC-INDIC DIGIT ZERO">>,
    <<\h30FC, "KATAKANA-HIRAGANA PROLONGED SOUND MARK">>,
    <<\h0816, "SAMARITAN MARK IN">>,
    <<\h080F, "SAMARITAN LETTER IN">>,
    <<\h1D11E, "MUSICAL SYMBOL G CLEF">>,
    <<\h10000, "LINEAR B SYLLABLE B008 A">>,
    <<\h05BC, "HEBREW POINT DAGESH OR MAPIQ">>,
    <<\h00BD, "VULGAR FRACTION ONE HALF">>,
    <<\h003F, "QUESTION MARK">>,
    <<\h2126, "OHM SIGN">>,
    <<\h0995, "BENGALI LETTER KA">>,
    <<\h0E02, "THAI CHARACTER KHO KHAI">>,
    <<\h1681, "OGHAM LETTER BEITH">>,
    <<\h2D07, "GEORGIAN SMALL LETTER TAN">>,
    <<\h1F9A7, "ORANGUTAN">>,
    <<\hFE70, "ARABIC FATHATAN ISOLATED FORM">>,
    <<\h064C, "ARABIC DAMMATAN">>,
    <<\h07EB, "NKO COMBINING SHORT HIGH TONE">>,
    <<\h0C00, "TELUGU SIGN COMBINING CANDRABINDU ABOVE">>,
    <<\h2401, "SYMBOL FOR START OF HEADING">>,
    <<\h15DE, "CANADIAN SYLLABICS CARRIER THE">>,
    <<\h0569, "ARMENIAN SMALL LETTER TO">>,
    <<\h00D0, "LATIN CAPITAL LETTER ETH">>,
    <<\h065C, "ARABIC VOWEL SIGN DOT BELOW">>,
    <<\h1F520, "INPUT SYMBOL FOR LATIN CAPITAL LETTERS">>,
    <<\h0772, "ARABIC LETTER HAH WITH SMALL ARABIC LETTER TAH BELOW">>,
    <<\h16D5, "RUNIC LETTER OPEN-P">>,
    <<\h2C80, "COPTIC CAPITAL LETTER ALFA">>,
    <<\h2C30, "GLAGOLITIC SMALL LETTER AZU">>
>>

UNNAMED == <<
    <<\h0000, UcdDict({"General_Category"}, PyNone)>>,
    <<\h0001, UcdNamed("<control>")>>,
    <<\h0002, UcdNamed("<control>")>>,
    <<\h0007, UcdNone>>,
    <<\h0378, UcdNone>>,
    <<\hD800, UcdNamed("")>>,
    <<\hE000, UcdDict({}, PyNone)>>,
    <<\hFFFF, UcdDict({"Name"}, PyNone)>>,
    <<\h10000 + \hFFFF, UcdDict({"Age"}, PyNone)>>,
    <<\h10FFFF, UcdNone>>
>>

\* How many of the NAMED characters the lookup knows
NumNames == 142

\* The lookup's table: codepoint, answer of ucd_data
UCD == UNNAMED \o [n \in 1..NumNames |-> <<NAMED[n][1], UcdNamed(NAMED[n][2])>>]

\* The values the module-level CASE_INDICATORS can take
CaseIndicatorSets == SUBSET CASE_INDICATORS_loaded

\* The calls for the codepoints of UCD under each value of CASE_INDICATORS,
\* evaluated once
Calls ==
    <<>> @@ [case_indicators \in CaseIndicatorSets |->
                <<>> \o [i \in DOMAIN UCD |->
                            glyph_data_for_unicode(UCD[i][1], UCD[i][2], case_indicators)]]

\* The call for the codepoint UCD[i] under the current CASE_INDICATORS
CallOf(i, case_indicators) == Calls[case_indicators][i]

\* A variant of ModuleCaseIndicators for case_indicators_to_remove =
\* CASE_INDICATORS without .copy(): the discards act on the module's set.
ModuleCaseIndicators_aliased(case_indicators, case_indicators_to_remove) ==
    case_indicators_to_remove

\* The module-level CASE_INDICATORS after a call that reached
\* case_indicators_to_remove = CASE_INDICATORS.copy(): the discards act on
\* the copy, the module's set stays.
ModuleCaseIndicators(case_indicators, case_indicators_to_remove) == case_indicators

(***************************************************************************)
(* State                                                                   *)
(***************************************************************************)
VARIABLES
    CASE_INDICATORS,  \* the module-level set
    last,             \* the latest call: codepoint, lookup answer, outcome
    locals,           \* the locals of the latest call at its return
    first,            \* the first call of the session, as last records it
    other             \* a later call of the session had another codepoint

vars == <<CASE_INDICATORS, last, locals, first, other>>

NoCall == [called |-> FALSE, decimal_unicode |-> 0, ucd |-> UcdNone,
           raised |-> "", ret |-> ""]

Init ==
    /\ CASE_INDICATORS = CASE_INDICATORS_loaded
    /\ last = NoCall
    /\ locals = NoLocals
    /\ first = NoCall
    /\ other = FALSE

\* glyph_data_for_unicode(UCD[i][1]): the whole call
Call(i) ==
    LET c == CallOf(i, CASE_INDICATORS)
    IN  /\ last' = [called |-> TRUE, decimal_unicode |-> UCD[i][1],
                    ucd |-> UCD[i][2], raised |-> c.raised, ret |-> c.ret]
        /\ locals' = c.locals
        /\ CASE_INDICATORS' =
               IF c.locals.entered
               THEN ModuleCaseIndicators(CASE_INDICATORS,
                                         c.locals.case_indicators_to_remove)
               ELSE CASE_INDICATORS

\* A call, nothing of the session remembered
Next == \E i \in DOMAIN UCD : Call(i) /\ UNCHANGED <<first, other>>

Spec == Init /\ [][Next]_vars

\* A call of a session that remembers its first call
SessionCall(i) ==
    /\ Call(i)
    /\ first' = IF first.called THEN first ELSE last'
    /\ other' = (other \/ (first.called /\ UCD[i][1] # first.decimal_unicode))

SessionNext == \E i \in DOMAIN UCD : SessionCall(i)

Session == Init /\ [][SessionNext]_vars


(***************************************************************************)
(* The function on names put together from a few words, the lookup         *)
(* answering such a name for a private-use codepoint: the call is chosen   *)
(* at the start and WordsCall makes it.                                    *)
(***************************************************************************)
Vocabulary ==
    <<"GREEK", "CAPITAL", "SYMBOL", "FOR", "NULL", "OF", "TO", "AND", "OR">>

\* The greatest number of words of such a name
MaxWords == 3

RECURSIVE JoinWords(_)
\* " ".join(tokens)
JoinWords(tokens) ==
    IF tokens = <<>> THEN ""
    ELSE IF Len(tokens) = 1 THEN Head(tokens)
    ELSE Head(tokens) \o " " \o JoinWords(Tail(tokens))

\* Some longer names: SYMBOL FOR after a script and before other words
LongerNames ==
    {<<"GREEK", "SYMBOL", "FOR", "NULL">>,
     <<"GREEK", "SYMBOL", "FOR", "START", "OF", "HEADING">>,
     <<"GREEK", "CAPITAL", "SYMBOL", "FOR", "NULL", "AND", "NULL">>,
     <<"INPUT", "SYMBOL", "FOR", "GREEK", "CAPITAL", "OR", "NULL", "TO", "NULL">>}

\* Names with the words that set the flags of the suffix words, one flag
\* and two
SuffixNames ==
    {<<"COMBINING", "KA">>,
     <<"HEBREW", "PUNCTUATION", "KA">>,
     <<"YI", "SYLLABICS", "KA">>,
     <<"GREEK", "LETTER", "KA">>,
     <<"HANGUL", "JONGSEONG", "KA">>,
     <<"COMBINING", "SYLLABLE", "KA">>,
     <<"COMBINING", "SYLLABICS", "KA">>,
     <<"HEBREW", "ACCENT", "SYLLABLE", "KA">>,
     <<"HEBREW", "PUNCTUATION", "SYLLABICS", "KA">>,
     <<"GREEK", "LETTER", "SYLLABLE", "KA">>,
     <<"HANGUL", "CHOSEONG", "SYLLABLE", "KA">>}

\* The lists of 1..MaxWords words of the vocabulary, and the other names
WordLists ==
    UNION {[1..n -> {Vocabulary[k] : k \in DOMAIN Vocabulary}] : n \in 1..MaxWords}
    \cup LongerNames \cup SuffixNames

WordsInit ==
    /\ CASE_INDICATORS = CASE_INDICATORS_loaded
    /\ \E tokens \in WordLists :
           last = [called |-> FALSE, decimal_unicode |-> \hE000,
                   ucd |-> UcdNamed(JoinWords(tokens)), raised |-> "", ret |-> ""]
    /\ locals = NoLocals
    /\ first = NoCall
    /\ other = FALSE

\* glyph_data_for_unicode(last.decimal_unicode): the whole call
WordsCall ==
    /\ ~last.called
    /\ LET c == glyph_data_for_unicode(last.decimal_unicode, last.ucd, CASE_INDICATORS)
       IN  /\ last' = [last EXCEPT !.called = TRUE, !.raised = c.raised, !.ret = c.ret]
           /\ locals' = c.locals
           /\ CASE_INDICATORS' =
                  IF c.locals.entered
                  THEN ModuleCaseIndicators(CASE_INDICATORS,
                                            c.locals.case_indicators_to_remove)
                  ELSE CASE_INDICATORS
    /\ UNCHANGED <<first, other>>

WordsNext == WordsCall

Words == WordsInit /\ [][WordsNext]_vars


(***************************************************************************)
(* Properties                                                              *)
(***************************************************************************)
\* The characters of a str
Chars(s) == {CharAt(s, i) : i \in 1..Len(s)}

DIGITS == {"0","1","2","3","4","5","6","7","8","9"}

HEXUPPER == DIGITS \cup {"A","B","C","D","E","F"}

\* The call c had a lookup answer with a Name that is a non-empty str not
\* starting with "<": the character is a named one
NamedCall(c) ==
    /\ c.called
    /\ ~c.ucd.is_none
    /\ "Name" \in c.ucd.keys
    /\ c.ucd.Name.type = "str"
    /\ c.ucd.Name.val # ""
    /\ ~str_startswith(c.ucd.Name.val, "<")

\* C1: two calls of a session for distinct codepoints that both are named
\* characters return different glyph names.
C1_GlobalUniqueness ==
    (/\ NamedCall(first)
     /\ NamedCall(last)
     /\ first.decimal_unicode # last.decimal_unicode)
    => first.ret # last.ret

\* The small and the caseless glottal stop, which differ by "Letter" only
C1_Witness ==
    /\ NamedCall(first)
    /\ NamedCall(last)
    /\ first.ucd.Name.val = "LATIN SMALL LETTER GLOTTAL STOP"
    /\ last.ucd.Name.val = "LATIN LETTER GLOTTAL STOP"
    /\ first.ret = "glottalStop-lat"
    /\ last.ret = "glottalStopLetter-lat"

\* re.fullmatch("[A-Za-z][A-Za-z0-9]*(-[a-z]+)?", s): a letter, then letters
\* and digits, then at most one hyphen followed by lowercase letters only
MatchesNamePattern(s) ==
    LET hyphens == {i \in 1..Len(s) : CharAt(s, i) = "-"}
        body == IF hyphens = {} THEN s
                ELSE SubSeq(s, 1, (CHOOSE h \in hyphens : \A j \in hyphens : h <= j) - 1)
        tail == SubSeq(s, Len(body) + 1, Len(s))
    IN  /\ body # ""
        /\ CharAt(body, 1) \in UPPER \cup LOWER
        /\ Chars(body) \subseteq UPPER \cup LOWER \cup DIGITS
        /\ \/ tail = ""
           \/ /\ Len(tail) >= 2
              /\ Chars(SubSeq(tail, 2, Len(tail))) \subseteq LOWER

\* C2: every string a call returns matches ^[A-Za-z][A-Za-z0-9]*(-[a-z]+)?$
C2_Charset == (last.called /\ last.raised = "") => MatchesNamePattern(last.ret)

\* C2 restricted to named characters
C2_CharsetNamed == (NamedCall(last) /\ last.raised = "") => MatchesNamePattern(last.ret)

\* C3: no glyph name returned for a named character contains an underscore
C3_NoUnderscore == (NamedCall(last) /\ last.raised = "") => "_" \notin Chars(last.ret)

\* A named character whose glyph name is made of several capitalized words
C3_Witness ==
    /\ NamedCall(last)
    /\ locals.entered
    /\ Len(locals.parts) >= 3
    /\ last.ret = "markBka-ShogYigMgo-tib"

RECURSIVE HexValue(_)
\* int(s, 16) of a non-empty str of uppercase hex digits
HexValue(s) ==
    LET d == CHOOSE k \in 1..16 : HexDigit[k] = CharAt(s, Len(s))
    IN  IF Len(s) = 1 THEN d - 1
        ELSE 16 * HexValue(SubSeq(s, 1, Len(s) - 1)) + (d - 1)

\* s is "uni" followed by four or more uppercase hex digits
IsUniHex(s) ==
    /\ Len(s) >= 7
    /\ str_startswith(s, "uni")
    /\ Chars(StrFrom(s, 4)) \subseteq HEXUPPER

\* s is "uni" and the uppercase hex digits of cp, padded with zeros to four
\* digits and no further
IsUniHexOf(s, cp) ==
    /\ IsUniHex(s)
    /\ HexValue(StrFrom(s, 4)) = cp
    /\ (Len(s) > 7 => CharAt(s, 4) # "0")

\* C4: when the lookup gives no data or a record without Name, the call
\* returns "uni" and the codepoint in uppercase hex, zero-padded to at
\* least four digits and not truncated.
C4_FallbackFormat ==
    (last.called /\ NoUsableName(last.ucd))
    => (last.raised = "" /\ IsUniHexOf(last.ret, last.decimal_unicode))

\* The fallback of the greatest codepoint, six digits long
C4_Witness ==
    /\ last.called
    /\ NoUsableName(last.ucd)
    /\ last.decimal_unicode = 1114111
    /\ last.ret = "uni10FFFF"

\* The fallback of a codepoint that needs padding
C4_WitnessPadded ==
    /\ last.called
    /\ NoUsableName(last.ucd)
    /\ last.decimal_unicode = 7
    /\ last.ret = "uni0007"

\* C5: a returned string has the form "uni" + four or more uppercase hex
\* digits exactly when the lookup gave no usable name or no word of the name
\* is left when the casing starts.
C5_FallbackIff ==
    (last.called /\ last.raised = "")
    => (IsUniHex(last.ret)
        <=> (NoUsableName(last.ucd) \/ (locals.entered /\ locals.parts = <<>>)))

\* A named character all of whose words are removed
C5_Witness ==
    /\ NamedCall(last)
    /\ locals.entered
    /\ locals.parts_split = <<"YI", "SYLLABLE", "YI">>
    /\ locals.parts = <<>>
    /\ last.ret = "uniA473"

\* The number of hyphens of a str
HyphenCount(s) == Cardinality({i \in 1..Len(s) : CharAt(s, i) = "-"})

RECURSIVE HyphensIn(_)
\* The number of hyphens of the words of a list
HyphensIn(parts) ==
    IF parts = <<>> THEN 0 ELSE HyphenCount(Head(parts)) + HyphensIn(Tail(parts))

\* The words of the designation of the i-th item of SCRIPT_SUFFIXES
DesignationWords(i) == str_split(SCRIPT_SUFFIXES[i][1])

\* The items of SCRIPT_SUFFIXES whose words are the first tokens, in order
DesignationsAtStart(tokens) ==
    {i \in DOMAIN SCRIPT_SUFFIXES :
        /\ Len(DesignationWords(i)) <= Len(tokens)
        /\ \A k \in 1..Len(DesignationWords(i)) : tokens[k] = DesignationWords(i)[k]}

\* Those of a set of items with the greatest word count
Longest(d) ==
    {i \in d : \A j \in d : Len(DesignationWords(j)) <= Len(DesignationWords(i))}

\* s ends with a hyphen followed by one or more lowercase letters
CarriesSuffix(s) ==
    \E h \in 1..(Len(s) - 1) :
        /\ CharAt(s, h) = "-"
        /\ Chars(SubSeq(s, h + 1, Len(s))) \subseteq LOWER

\* C6 as stated: the output carries a hyphenated suffix exactly when a
\* designation is detected at the start of the name, and the suffix then is
\* the table value of that designation.
C6_SuffixIffDetected ==
    (last.called /\ last.raised = "" /\ locals.entered)
    => LET d == Longest(DesignationsAtStart(locals.parts_split))
       IN  /\ CarriesSuffix(last.ret) <=> d # {}
           /\ \A i \in d : str_endswith(last.ret, SCRIPT_SUFFIXES[i][2])

\* C6, amended: when a word is left, the output ends with the table value of
\* the designation detected at the start of the name and has one hyphen more
\* than the words left; without a designation it has the hyphens of the words
\* left and no other.  When no word is left the output is the fallback, with
\* no suffix, whether a designation was detected or not.
C6_SuffixAmended ==
    (last.called /\ last.raised = "" /\ locals.entered)
    => LET d == Longest(DesignationsAtStart(locals.parts_split))
       IN  IF locals.parts = <<>>
           THEN IsUniHexOf(last.ret, last.decimal_unicode)
           ELSE IF d = {}
           THEN HyphenCount(last.ret) = HyphensIn(locals.parts)
           ELSE /\ \A i \in d : str_endswith(last.ret, SCRIPT_SUFFIXES[i][2])
                /\ HyphenCount(last.ret) = HyphensIn(locals.parts) + 1

\* A name with a designation at its start and words left
C6_Witness ==
    /\ locals.entered
    /\ locals.parts_split = <<"YI", "SYLLABLE", "IT">>
    /\ locals.parts = <<"IT">>
    /\ last.ret = "itSyllable-yi"

\* C7: the script detected is the designation with the most words among
\* those whose words are the first tokens of the name; a designation found
\* only later in the name is not detected; with no designation at the start
\* the script suffix is empty.
C7_ScriptDetection ==
    locals.entered
    => LET d == Longest(DesignationsAtStart(locals.parts_split))
       IN  IF d = {}
           THEN locals.script_suffix = "" /\ locals.script_words_to_remove = <<>>
           ELSE \E i \in d :
                    /\ locals.script_suffix = SCRIPT_SUFFIXES[i][2]
                    /\ locals.script_words_to_remove = DesignationWords(i)

\* CHEROKEE LETTER YI: the designation YI ends the name, CHEROKEE starts it
C7_Witness ==
    /\ locals.entered
    /\ locals.parts_split = <<"CHEROKEE", "LETTER", "YI">>
    /\ locals.script_suffix = "-chr"
    /\ last.ret = "yiLetter-chr"

\* The designation of two words
C7_WitnessTwoWords ==
    /\ locals.entered
    /\ locals.script_words_to_remove = <<"CAUCASIAN", "ALBANIAN">>
    /\ locals.script_suffix = "-aghb"

\* C8: two calls of a session with the same codepoint and the same answer
\* of the lookup return the same, whatever was called in between.
C8_Determinism ==
    (/\ first.called
     /\ last.called
     /\ first.decimal_unicode = last.decimal_unicode
     /\ first.ucd = last.ucd)
    => (first.ret = last.ret /\ first.raised = last.raised)

\* The same small letter called again after a call for another codepoint
C8_Witness ==
    /\ first.called
    /\ last.called
    /\ other
    /\ first.decimal_unicode = last.decimal_unicode
    /\ first.ucd = UcdNamed("LATIN SMALL LETTER A")
    /\ last.ret = "a-lat"

\* C9: no two designations of the SCRIPT_SUFFIXES a call reads have the same
\* suffix.
C9_SuffixesInjective ==
    last.called
    => \A i, j \in DOMAIN SCRIPT_SUFFIXES :
           SCRIPT_SUFFIXES[i][2] = SCRIPT_SUFFIXES[j][2] => i = j

\* A call for a TAI name right after the module loaded: the suffix of TAI is
\* the suffix of no other designation, of THAI in particular
C9_Witness ==
    /\ locals.entered
    /\ locals.script_words_to_remove = <<"TAI">>
    /\ locals.script_suffix = "-tai"
    /\ \E i \in DOMAIN SCRIPT_SUFFIXES :
           SCRIPT_SUFFIXES[i] = <<"THAI", "-th">>

\* C10: no call raises; when the lookup gives no data, a record without
\* Name, or a Name that is no usable string, the call returns the fallback.
C10_NeverRaises ==
    last.called
    => /\ last.raised = ""
       /\ (NoUsableName(last.ucd) \/ last.ucd.Name.type # "str" \/ last.ucd.Name.val = "")
          => IsUniHexOf(last.ret, last.decimal_unicode)

\* The lookup answered a record whose Name is None: name.split() raised
C10_RaisedOnNoneName ==
    /\ last.called
    /\ "Name" \in last.ucd.keys
    /\ last.ucd.Name = PyNone
    /\ last.raised = "AttributeError"

RECURSIVE TotalLen(_)
\* The number of characters of the words of a list
TotalLen(parts) == IF parts = <<>> THEN 0 ELSE Len(Head(parts)) + TotalLen(Tail(parts))

\* The stretch of body that the k-th word of parts takes when the words are
\* written one after the other with nothing between them
Segment(body, parts, k) ==
    LET start == TotalLen(SubSeq(parts, 1, k - 1))
    IN  SubSeq(body, start + 1, start + Len(parts[k]))

\* r is w with its first letter upper and the others lower
IsTitleOf(r, w) ==
    /\ Len(r) = Len(w)
    /\ \A i \in 1..Len(w) :
           CharAt(r, i) = IF i = 1 THEN UpperChar(CharAt(w, i)) ELSE LowerChar(CharAt(w, i))

\* r is w with all letters lower
IsLowerOf(r, w) ==
    /\ Len(r) = Len(w)
    /\ \A i \in 1..Len(w) : CharAt(r, i) = LowerChar(CharAt(w, i))

\* C11: the body is the words left, one after the other with no separator;
\* the first is uppercase as it is when it is a detected ligature, else
\* first-upper/rest-lower when the name has the token CAPITAL, else all
\* lowercase; every later word is first-upper/rest-lower.
C11_Casing ==
    (locals.entered /\ locals.parts # <<>>)
    => /\ Len(locals.body) = TotalLen(locals.parts)
       /\ \A k \in 2..Len(locals.parts) :
              IsTitleOf(Segment(locals.body, locals.parts, k), locals.parts[k])
       /\ LET first_word == Segment(locals.body, locals.parts, 1)
              first_part == locals.parts[1]
          IN  IF IsMultiLetterLigature(first_part, locals.is_capital, locals.script_suffix)
              THEN first_word = first_part /\ Chars(first_word) \cap LOWER = {}
              ELSE IF InList("CAPITAL", locals.parts_split)
              THEN IsTitleOf(first_word, first_part)
              ELSE IsLowerOf(first_word, first_part)

\* A capital letter of two words
C11_Witness ==
    /\ locals.entered
    /\ locals.parts_split = <<"LATIN", "CAPITAL", "LETTER", "SHARP", "S">>
    /\ locals.parts = <<"SHARP", "S">>
    /\ locals.body = "SharpS"
    /\ last.ret = "SharpS-lat"

\* A small letter of two words
C11_WitnessSmall ==
    /\ locals.entered
    /\ locals.parts = <<"SHARP", "S">>
    /\ last.ret = "sharpS-lat"

\* The first word left has 2 or 3 characters, all uppercase letters, the
\* name has the token CAPITAL and the script detected is LATIN
LigatureConditions ==
    /\ Len(locals.parts[1]) \in {2, 3}
    /\ Chars(locals.parts[1]) \subseteq UPPER
    /\ InList("CAPITAL", locals.parts_split)
    /\ locals.script_words_to_remove = <<"LATIN">>

\* C12: the first word left is written in the body fully uppercase, as it
\* is, exactly when LigatureConditions holds; else it is lowercased when the
\* name has no CAPITAL and first-upper/rest-lower when it has, which for a
\* word with a letter after its first character is not the word as it is.
C12_Ligature ==
    (locals.entered /\ locals.parts # <<>>)
    => LET first_word == SubSeq(locals.body, 1, Len(locals.parts[1]))
           first_part == locals.parts[1]
       IN  IF LigatureConditions
           THEN first_word = first_part
           ELSE /\ IF InList("CAPITAL", locals.parts_split)
                   THEN IsTitleOf(first_word, first_part)
                   ELSE IsLowerOf(first_word, first_part)
                /\ (\E i \in 2..Len(first_part) : CharAt(first_part, i) \in UPPER)
                   => first_word # first_part

\* LATIN CAPITAL LETTER AE
C12_Witness ==
    /\ locals.entered
    /\ locals.parts = <<"AE">>
    /\ LigatureConditions
    /\ last.ret = "AE-lat"

\* The same word without CAPITAL, and a word of two letters of another script
C12_WitnessLower ==
    /\ locals.entered
    /\ locals.parts = <<"AE">>
    /\ last.ret = "ae-lat"

C12_WitnessCyrillic ==
    /\ locals.entered
    /\ locals.parts = <<"BE">>
    /\ locals.is_capital
    /\ last.ret = "Be-cyr"

\* The body followed by its suffix words, before the script suffix
Assembled ==
    locals.body \o (IF locals.is_combining THEN "Combining" ELSE "")
                \o locals.hebrew_suffix \o locals.syllable_suffix
                \o locals.letter_suffix \o locals.hangul_position

\* The last three characters of s are "tan"
EndsInTan(s) == Len(s) >= 3 /\ SubSeq(s, Len(s) - 2, Len(s)) = "tan"

\* C13: what is returned is the assembled body and the script suffix, but
\* for an Arabic name whose assembled body ends in "tan" that ending is
\* replaced by "Tanween"; for other scripts and other endings the assembled
\* body is unchanged.
C13_Tanween ==
    (locals.entered /\ locals.parts # <<>>)
    => IF locals.script_words_to_remove = <<"ARABIC">> /\ EndsInTan(Assembled)
       THEN last.ret = SubSeq(Assembled, 1, Len(Assembled) - 3) \o "Tanween" \o "-ar"
       ELSE last.ret = Assembled \o locals.script_suffix

\* ARABIC FATHATAN
C13_Witness ==
    /\ locals.entered
    /\ locals.script_words_to_remove = <<"ARABIC">>
    /\ Assembled = "fathatan"
    /\ last.ret = "fathaTanween-ar"

\* An ending "tan" in another script, in no script, and an Arabic body that
\* has "tan" inside
C13_WitnessGeorgian ==
    /\ locals.entered
    /\ EndsInTan(Assembled)
    /\ last.ret = "tan-geo"

C13_WitnessNoScript ==
    /\ locals.entered
    /\ locals.script_suffix = ""
    /\ EndsInTan(Assembled)
    /\ last.ret = "orangutan"

C13_WitnessInside ==
    /\ locals.entered
    /\ ~EndsInTan(Assembled)
    /\ last.ret = "fathatanIsolatedForm-ar"

\* The number of times w is a word of parts
Occurrences(parts, w) == Cardinality({k \in DOMAIN parts : parts[k] = w})

\* The words of parts before, and after, the first COMBINING
BeforeCombining(parts) ==
    {parts[k] : k \in {k \in DOMAIN parts : \A j \in 1..k : parts[j] # "COMBINING"}}

AfterCombining(parts) ==
    {parts[k] : k \in {k \in DOMAIN parts : \E j \in 1..(k - 1) : parts[j] = "COMBINING"}}

\* C14: for a name with COMBINING and no script detected, COMBINING is not
\* among the words left and the output is the body followed by "Combining"
\* and nothing else; for a name with COMBINING and a script detected the
\* word stays where it is among the words left and no "Combining" is
\* appended.
C14_Combining ==
    (locals.entered /\ locals.parts # <<>> /\ InList("COMBINING", locals.parts_split))
    => IF locals.script_words_to_remove = <<>>
       THEN /\ ~InList("COMBINING", locals.parts)
            /\ locals.script_suffix = ""
            /\ last.ret = locals.body \o "Combining"
       ELSE /\ Occurrences(locals.parts, "COMBINING")
                   = Occurrences(locals.parts_split, "COMBINING")
            /\ BeforeCombining(locals.parts) \subseteq BeforeCombining(locals.parts_split)
            /\ AfterCombining(locals.parts) \subseteq AfterCombining(locals.parts_split)
            /\ ~locals.is_combining
            /\ Len(last.ret) = Len(locals.body) + Len(locals.script_suffix)

\* COMBINING GRAVE ACCENT
C14_Witness ==
    /\ locals.entered
    /\ locals.parts_split = <<"COMBINING", "GRAVE", "ACCENT">>
    /\ locals.parts = <<"GRAVE">>
    /\ last.ret = "graveCombining"

\* NKO COMBINING SHORT HIGH TONE, and COMBINING after a word that is dropped
C14_WitnessScript ==
    /\ locals.entered
    /\ locals.script_suffix = "-nko"
    /\ locals.parts = <<"COMBINING", "SHORT", "HIGH", "TONE">>
    /\ last.ret = "combiningShortHighTone-nko"

C14_WitnessScriptSign ==
    /\ locals.entered
    /\ locals.parts_split = <<"TELUGU", "SIGN", "COMBINING", "CANDRABINDU", "ABOVE">>
    /\ last.ret = "combiningCandrabinduAbove-tel"

\* The position words of Hangul jamo
HangulPositionWords == {"CHOSEONG", "JUNGSEONG", "JONGSEONG"}

\* The tag of the position word among the tokens, "" when there is none
PositionTag(tokens) ==
    IF InList("CHOSEONG", tokens) THEN "Cho"
    ELSE IF InList("JUNGSEONG", tokens) THEN "Jung"
    ELSE IF InList("JONGSEONG", tokens) THEN "Jong"
    ELSE ""

\* C15: for a name whose script is HANGUL no position word is among the
\* words left, and the output is the body (with its syllable or letter
\* word), then the tag Cho, Jung or Jong of the position word of the name,
\* or nothing when the name has none, and then the script suffix.
C15_HangulJamo ==
    (locals.entered /\ locals.parts # <<>> /\ locals.script_words_to_remove = <<"HANGUL">>)
    => /\ \A k \in DOMAIN locals.parts : locals.parts[k] \notin HangulPositionWords
       /\ last.ret = locals.body \o locals.syllable_suffix \o locals.letter_suffix
                                 \o PositionTag(locals.parts_split) \o "-ko"

\* HANGUL CHOSEONG KIYEOK
C15_Witness ==
    /\ locals.entered
    /\ locals.parts_split = <<"HANGUL", "CHOSEONG", "KIYEOK">>
    /\ locals.parts = <<"KIYEOK">>
    /\ last.ret = "kiyeokCho-ko"

\* The other two positions, and a name without a position word
C15_WitnessJung ==
    /\ locals.entered
    /\ InList("JUNGSEONG", locals.parts_split)
    /\ last.ret = "aJung-ko"

C15_WitnessJong ==
    /\ locals.entered
    /\ InList("JONGSEONG", locals.parts_split)
    /\ last.ret = "kiyeokJong-ko"

C15_WitnessNoPosition ==
    /\ locals.entered
    /\ locals.parts_split = <<"HANGUL", "LETTER", "KIYEOK">>
    /\ last.ret = "kiyeok-ko"

\* Every SIGN of the name is among the words left and is written in the body
SignRetained ==
    /\ Occurrences(locals.parts, "SIGN") = Occurrences(locals.parts_split, "SIGN")
    /\ \A k \in DOMAIN locals.parts :
           locals.parts[k] = "SIGN"
           => Segment(locals.body, locals.parts, k) \in {"Sign", "sign"}

\* No SIGN is among the words left
SignDropped == ~InList("SIGN", locals.parts)

\* A call on a name that has the token SIGN and keeps at least one word
SignCall ==
    /\ locals.entered
    /\ locals.parts # <<>>
    /\ InList("SIGN", locals.parts_split)

\* C16 as stated: SIGN is retained when no script is detected and when the
\* script is TAI, and dropped for every other script.
C16_SignRetention ==
    SignCall
    => IF locals.script_words_to_remove \in {<<>>, <<"TAI">>}
       THEN SignRetained
       ELSE SignDropped

\* C16: SIGN is retained when no script is detected, when the script is TAI,
\* and, for any script, when the name has the token VOWEL; it is dropped for
\* the other names with a script.
C16_SignAmended ==
    SignCall
    => IF \/ locals.script_words_to_remove \in {<<>>, <<"TAI">>}
          \/ InList("VOWEL", locals.parts_split)
       THEN SignRetained
       ELSE SignDropped

\* DEVANAGARI VOWEL SIGN AA keeps SIGN
C16_Witness ==
    /\ SignCall
    /\ locals.script_words_to_remove = <<"DEVANAGARI">>
    /\ InList("VOWEL", locals.parts_split)
    /\ SignRetained
    /\ last.ret = "vowelSignAa-dev"

\* The cases of the statement: no script, TAI, another script
C16_WitnessNoScript ==
    /\ SignCall
    /\ locals.script_words_to_remove = <<>>
    /\ last.ret = "colonSign"

C16_WitnessTai ==
    /\ SignCall
    /\ locals.script_words_to_remove = <<"TAI">>
    /\ last.ret = "yoSignUe-tai"

C16_WitnessDropped ==
    /\ SignCall
    /\ SignDropped
    /\ last.ret = "candrabindu-dev"

\* The designations of the scripts that have case
CasedScripts ==
    {<<"LATIN">>, <<"GREEK">>, <<"CYRILLIC">>, <<"GEORGIAN">>, <<"GLAGOLITIC">>,
     <<"COPTIC">>, <<"ARMENIAN">>, <<"CHEROKEE">>, <<"LIMBU">>, <<"PHAGS-PA">>}

\* The name has LETTER, neither SMALL nor CAPITAL, and a script with case
CaselessLetter ==
    /\ InList("LETTER", locals.parts_split)
    /\ ~InList("SMALL", locals.parts_split)
    /\ ~InList("CAPITAL", locals.parts_split)
    /\ locals.script_words_to_remove \in CasedScripts

\* The body with its suffix words other than "Letter"
AssembledWithoutLetter ==
    locals.body \o (IF locals.is_combining THEN "Combining" ELSE "")
                \o locals.hebrew_suffix \o locals.syllable_suffix
                \o locals.hangul_position

\* C17: LETTER is never among the words left; the output is the body with
\* its other suffix words, then "Letter", then the script suffix exactly when
\* CaselessLetter holds, and otherwise it has no "Letter" appended (it is
\* the body with its other suffix words, tanween rewrite included, and the
\* script suffix).
C17_LetterSuffix ==
    (locals.entered /\ locals.parts # <<>>)
    => /\ ~InList("LETTER", locals.parts)
       /\ IF CaselessLetter
          THEN last.ret = AssembledWithoutLetter \o "Letter" \o locals.script_suffix
          ELSE \/ last.ret = AssembledWithoutLetter \o locals.script_suffix
               \/ /\ EndsInTan(AssembledWithoutLetter)
                  /\ last.ret = SubSeq(AssembledWithoutLetter, 1,
                                       Len(AssembledWithoutLetter) - 3)
                                    \o "Tanween" \o "-ar"

\* LATIN LETTER GLOTTAL STOP
C17_Witness ==
    /\ locals.entered
    /\ CaselessLetter
    /\ locals.parts = <<"GLOTTAL", "STOP">>
    /\ last.ret = "glottalStopLetter-lat"

\* The small letter of the same name, and a letter of a script without case
C17_WitnessSmall ==
    /\ locals.entered
    /\ InList("LETTER", locals.parts_split)
    /\ ~CaselessLetter
    /\ last.ret = "glottalStop-lat"

C17_WitnessCaseless ==
    /\ locals.entered
    /\ InList("LETTER", locals.parts_split)
    /\ ~CaselessLetter
    /\ last.ret = "alef-ar"

\* The ten scripts with case all get the suffix word
C17_WitnessPhagsPa ==
    /\ locals.entered
    /\ CaselessLetter
    /\ locals.script_words_to_remove = <<"PHAGS-PA">>
    /\ last.ret = "aLetter-phag"

\* The filler words of the statement
FillerWords == {"WITH", "OF", "FOR", "TO", "THE"}

\* The filler words the filter may remove from a name with these tokens:
\* FOR is not one of them when the name has SYMBOL and FOR, TO and THE are
\* not when it has SYLLABLE or SYLLABICS
RemovableWords(tokens) ==
    {"WITH", "OF"}
    \cup (IF InList("SYMBOL", tokens) /\ InList("FOR", tokens) THEN {} ELSE {"FOR"})
    \cup (IF InList("SYLLABLE", tokens) \/ InList("SYLLABICS", tokens)
          THEN {} ELSE {"TO", "THE"})

\* The filter has run on a list with a filler word
FilterCall ==
    /\ locals.entered
    /\ \E k \in DOMAIN locals.parts_case : locals.parts_case[k] \in FillerWords

\* C18 as stated: the filter takes every WITH, OF, FOR, TO and THE out of
\* the list or none, and takes them out exactly when a word that is none of
\* them is in the list.
C18_AllOrNone ==
    FilterCall
    => LET before == locals.parts_case
           after == locals.parts_connecting
       IN  /\ after \in {before, Without(before, FillerWords)}
           /\ after # before => \E k \in DOMAIN before : before[k] \notin FillerWords
           /\ (\A k \in DOMAIN before : before[k] \in FillerWords) => after = before

\* C18: with the removable words of the name (WITH and OF; FOR unless the
\* name has SYMBOL and FOR; TO and THE unless it has SYLLABLE or SYLLABICS),
\* the filter takes every removable word out of the list when a word that is
\* not removable is in it, and leaves the list unchanged when there is none;
\* every other word stays and the list is never emptied, so a name whose
\* only content is a filler word keeps it.
C18_FilterAmended ==
    FilterCall
    => LET before == locals.parts_case
           after == locals.parts_connecting
           removable == RemovableWords(locals.parts_split)
       IN  /\ IF \E k \in DOMAIN before : before[k] \notin removable
              THEN after = Without(before, removable)
              ELSE after = before
           /\ after # <<>>

\* SYMBOL FOR START OF HEADING: OF is removed and FOR is not
C18_Witness ==
    /\ FilterCall
    /\ locals.parts_case = <<"SYMBOL", "FOR", "START", "OF", "HEADING">>
    /\ locals.parts_connecting = <<"SYMBOL", "FOR", "START", "HEADING">>
    /\ last.ret = "symbolForStartHeading"

\* A filler word alone is kept, with and without SYLLABLE in the name; WITH
\* is removed; THE stays after another word of a syllabics name
C18_WitnessOnlyFiller ==
    /\ FilterCall
    /\ locals.parts_case = <<"TO">>
    /\ RemovableWords(locals.parts_split) = FillerWords
    /\ last.ret = "to-arm"

C18_WitnessSyllable ==
    /\ FilterCall
    /\ locals.parts_case = <<"TO">>
    /\ last.ret = "toSyllable-eth"

C18_WitnessRemoved ==
    /\ FilterCall
    /\ locals.parts_connecting = <<"ALEF", "MADDA", "ABOVE">>
    /\ last.ret = "alefMaddaAbove-ar"

C18_WitnessSyllabicsThe ==
    /\ FilterCall
    /\ locals.parts_connecting = <<"CARRIER", "THE">>
    /\ last.ret = "carrierTheSyllabics-can"

\* The number of AND and OR, and of any word, is that of the name
Kept(w) == Occurrences(locals.parts, w) = Occurrences(locals.parts_split, w)

\* The k-th word left is written in the body first-upper/rest-lower, or all
\* lowercase when it is the first
WrittenByPosition(k) ==
    LET written == Segment(locals.body, locals.parts, k)
    IN  \/ IsTitleOf(written, locals.parts[k])
        \/ k = 1 /\ IsLowerOf(written, locals.parts[k])

\* C19: every AND and OR of the name is among the words left, the list is
\* therefore not empty, and each is written in the body of the output
\* first-upper/rest-lower, or lowercase when it is the first word.
C19_AndOrKept ==
    (locals.entered /\ (InList("AND", locals.parts_split) \/ InList("OR", locals.parts_split)))
    => /\ Kept("AND")
       /\ Kept("OR")
       /\ str_startswith(last.ret, locals.body)
       /\ \A k \in DOMAIN locals.parts :
              locals.parts[k] \in {"AND", "OR"} => WrittenByPosition(k)

\* AND after another word
C19_Witness ==
    /\ locals.entered
    /\ locals.parts_split = <<"NULL", "AND">>
    /\ locals.parts = <<"NULL", "AND">>
    /\ last.ret = "nullAnd"

\* AND and OR alone, with filler words, first, and in a name with a script
C19_WitnessFillers ==
    /\ locals.entered
    /\ locals.parts_split = <<"OR", "OF", "AND">>
    /\ locals.parts = <<"OR", "AND">>
    /\ last.ret = "orAnd"

C19_WitnessScript ==
    /\ locals.entered
    /\ locals.parts_split = <<"GREEK", "CAPITAL", "OR">>
    /\ last.ret = "Or-gr"

\* C20: when the name has SYMBOL and FOR, every SYMBOL and every FOR of the
\* name is among the words left and is written in the body of the output,
\* with or without other words and with or without a script detected.
C20_SymbolFor ==
    (locals.entered /\ InList("SYMBOL", locals.parts_split) /\ InList("FOR", locals.parts_split))
    => /\ Kept("SYMBOL")
       /\ Kept("FOR")
       /\ str_startswith(last.ret, locals.body)
       /\ \A k \in DOMAIN locals.parts :
              locals.parts[k] \in {"SYMBOL", "FOR"} => WrittenByPosition(k)

\* SYMBOL FOR NULL: no script, another word
C20_Witness ==
    /\ locals.entered
    /\ locals.parts_split = <<"SYMBOL", "FOR", "NULL">>
    /\ locals.parts = <<"SYMBOL", "FOR", "NULL">>
    /\ last.ret = "symbolForNull"

\* No other word; a script; a script and another word; FOR before SYMBOL
C20_WitnessAlone ==
    /\ locals.entered
    /\ locals.parts_split = <<"SYMBOL", "FOR">>
    /\ last.ret = "symbolFor"

C20_WitnessScriptAlone ==
    /\ locals.entered
    /\ locals.script_suffix = "-gr"
    /\ locals.parts = <<"SYMBOL", "FOR">>
    /\ last.ret = "symbolFor-gr"

C20_WitnessScript ==
    /\ locals.entered
    /\ locals.script_suffix = "-gr"
    /\ locals.parts = <<"SYMBOL", "FOR", "NULL">>
    /\ last.ret = "symbolForNull-gr"

C20_WitnessForFirst ==
    /\ locals.entered
    /\ locals.parts_split = <<"FOR", "NULL", "SYMBOL">>
    /\ last.ret = "forNullSymbol"

\* The category words that are always kept
AlwaysKept == {"RADICAL", "NUMBER", "DIGIT", "IDEOGRAPH"}

\* C21: every RADICAL, NUMBER, DIGIT and IDEOGRAPH among the tokens left
\* after the script words are removed is among the words left at the end and
\* is written in the body of the output, with a script and without.
C21_AlwaysKept ==
    (locals.entered /\ \E k \in DOMAIN locals.parts_script : locals.parts_script[k] \in AlwaysKept)
    => /\ \A w \in AlwaysKept :
              Occurrences(locals.parts, w) = Occurrences(locals.parts_script, w)
       /\ Len(locals.body) = TotalLen(locals.parts)
       /\ str_startswith(last.ret, locals.body)
       /\ \A k \in DOMAIN locals.parts :
              locals.parts[k] \in AlwaysKept => WrittenByPosition(k)

\* BRAHMI NUMBER ONE
C21_Witness ==
    /\ locals.entered
    /\ locals.parts_script = <<"NUMBER", "ONE">>
    /\ locals.parts = <<"NUMBER", "ONE">>
    /\ last.ret = "numberOne-brah"

\* The other three words, with a script and without
C21_WitnessDigit ==
    /\ locals.entered
    /\ locals.parts = <<"DIGIT", "ZERO">>
    /\ last.ret = "digitZero-brah"

C21_WitnessRadical ==
    /\ locals.entered
    /\ locals.parts = <<"RADICAL", "QOT">>
    /\ last.ret = "radicalQot-yi"

C21_WitnessIdeograph ==
    /\ locals.entered
    /\ locals.script_suffix = ""
    /\ locals.parts = <<"PARENTHESIZED", "IDEOGRAPH", "ONE">>
    /\ last.ret = "parenthesizedIdeographOne"

\* A call on a name that has the token SMALL and keeps at least one word
SmallCall ==
    /\ locals.entered
    /\ locals.parts # <<>>
    /\ InList("SMALL", locals.parts_script)

\* The script detected is HIRAGANA or KATAKANA
IsKana == locals.script_words_to_remove \in {<<"HIRAGANA">>, <<"KATAKANA">>}

\* Every SMALL of the name is among the words left and is written in the body
SmallRetained ==
    /\ Occurrences(locals.parts, "SMALL") = Occurrences(locals.parts_script, "SMALL")
    /\ \A k \in DOMAIN locals.parts : locals.parts[k] = "SMALL" => WrittenByPosition(k)

\* C22: SMALL is retained when the name has CAPITAL, when the name has a
\* script and none of CAPITAL, LETTER, LIGATURE, and when the script is
\* HIRAGANA or KATAKANA; it is dropped for a name with a script and LETTER
\* or LIGATURE, without CAPITAL, outside HIRAGANA and KATAKANA.
C22_SmallRetention ==
    SmallCall
    => LET tokens == locals.parts_script
           scripted == locals.script_words_to_remove # <<>>
           letter_or_ligature == InList("LETTER", tokens) \/ InList("LIGATURE", tokens)
       IN  /\ InList("CAPITAL", tokens) => SmallRetained
           /\ (scripted /\ ~InList("CAPITAL", tokens) /\ ~letter_or_ligature)
              => SmallRetained
           /\ IsKana => SmallRetained
           /\ (scripted /\ letter_or_ligature /\ ~InList("CAPITAL", tokens) /\ ~IsKana)
              => ~InList("SMALL", locals.parts)

\* LATIN LETTER SMALL CAPITAL I
C22_Witness ==
    /\ SmallCall
    /\ locals.parts = <<"SMALL", "CAPITAL", "I">>
    /\ last.ret = "SmallCapitalI-lat"

\* The other cases of the statement
C22_WitnessScriptVariant ==
    /\ SmallCall
    /\ locals.parts = <<"SMALL", "FATHA">>
    /\ last.ret = "smallFatha-ar"

C22_WitnessKana ==
    /\ SmallCall
    /\ IsKana
    /\ InList("LETTER", locals.parts_script)
    /\ last.ret = "smallA-hira"

C22_WitnessDropped ==
    /\ SmallCall
    /\ locals.parts = <<"A">>
    /\ last.ret = "a-lat"

C22_WitnessDroppedAfterLetter ==
    /\ SmallCall
    /\ locals.parts_script = <<"LETTER", "SMALL", "A">>
    /\ last.ret = "a-phag"

\* A call on a name that has the token SYLLABLE or SYLLABICS
SyllableCall ==
    /\ locals.entered
    /\ InList("SYLLABLE", locals.parts_split) \/ InList("SYLLABICS", locals.parts_split)

\* The suffix word of the token of the name
SyllableWord ==
    IF InList("SYLLABLE", locals.parts_split) THEN "Syllable" ELSE "Syllabics"

\* The token is not among the words left, and the output is the body, the
\* suffix words with the syllable word among them, and the script suffix
SyllableMoved ==
    /\ ~InList("SYLLABLE", locals.parts)
    /\ ~InList("SYLLABLE", locals.parts_split) => ~InList("SYLLABICS", locals.parts)
    /\ last.ret = locals.body \o (IF locals.is_combining THEN "Combining" ELSE "")
                              \o locals.hebrew_suffix \o SyllableWord
                              \o locals.letter_suffix \o locals.hangul_position
                              \o locals.script_suffix

\* C23 as stated: whenever the name has SYLLABLE or SYLLABICS the token is
\* removed and the output has the suffix word after the body and before the
\* script suffix.
C23_SyllableSuffix == SyllableCall => SyllableMoved

\* C23: when the name has SYLLABLE or SYLLABICS and at least one word is
\* left, the token is removed and the output has the suffix word after the
\* body and before the script suffix; when no word is left the output is the
\* uni+hex fallback, without suffix word and script suffix.
C23_SyllableAmended ==
    SyllableCall
    => IF locals.parts # <<>>
       THEN SyllableMoved
       ELSE IsUniHexOf(last.ret, last.decimal_unicode)

\* YI SYLLABLE YI: both YI are script words, nothing is left
C23_Witness ==
    /\ SyllableCall
    /\ locals.parts_script = <<"SYLLABLE">>
    /\ locals.syllable_suffix = "Syllable"
    /\ locals.parts = <<>>
    /\ last.ret = "uniA473"

\* YI SYLLABLE IT and CANADIAN SYLLABICS TO
C23_WitnessSyllable ==
    /\ SyllableCall
    /\ SyllableMoved
    /\ SyllableWord = "Syllable"
    /\ last.ret = "itSyllable-yi"

C23_WitnessSyllabics ==
    /\ SyllableCall
    /\ SyllableMoved
    /\ SyllableWord = "Syllabics"
    /\ last.ret = "toSyllabics-can"

\* A call on a name of the script CUNEIFORM that has the token TIMES
CuneiformTimesCall ==
    /\ locals.entered
    /\ locals.script_words_to_remove = <<"CUNEIFORM">>
    /\ InList("TIMES", locals.parts_split)

\* C24 as stated: the words of a CUNEIFORM name are cut at the first TIMES,
\* only those before it are left.
C24_CuneiformTruncated ==
    CuneiformTimesCall
    => /\ locals.parts = PrefixBefore(locals.parts_connecting, "TIMES")
       /\ ~InList("TIMES", locals.parts)

\* C24: the words of a CUNEIFORM name are not cut at TIMES: TIMES and the
\* words after it stay in their places and are written in the body.
C24_CuneiformAmended ==
    CuneiformTimesCall
    => /\ locals.parts = locals.parts_connecting
       /\ Kept("TIMES")
       /\ Len(locals.body) = TotalLen(locals.parts)
       /\ \A k \in DOMAIN locals.parts : WrittenByPosition(k)
       /\ last.ret = locals.body \o "-xsux"

\* CUNEIFORM SIGN A TIMES BAD
C24_Witness ==
    /\ CuneiformTimesCall
    /\ locals.parts = <<"A", "TIMES", "BAD">>
    /\ locals.body = "aTimesBad"
    /\ last.ret = "aTimesBad-xsux"

\* A name without TIMES has the output the cut would give A TIMES BAD
C24_WitnessNoTimes ==
    /\ locals.entered
    /\ locals.parts_split = <<"CUNEIFORM", "SIGN", "A">>
    /\ last.ret = "a-xsux"

\* A call on a name of the script RUNIC
RunicCall ==
    /\ locals.entered
    /\ locals.script_words_to_remove = <<"RUNIC">>

\* The structural descriptors of Runic names
RunicDescriptors == {"DOTTED", "LONG", "BRANCH", "SHORT", "GOLDEN"}

\* The tokens before the Runic block with the hyphenated ones split, and
\* those of them of more than one letter
RunicExpanded == ExpandHyphens(locals.parts_connecting)

RunicMulti == SelectSeq(RunicExpanded, LAMBDA p : Len(p) > 1)

\* Every hyphenated token was split: the pieces have no hyphen and all the
\* letters of the tokens
RunicSplit ==
    /\ \A k \in DOMAIN RunicExpanded : "-" \notin Chars(RunicExpanded[k])
    /\ TotalLen(RunicExpanded) + HyphensIn(locals.parts_connecting)
           = TotalLen(locals.parts_connecting)

\* At least two tokens, at least one of a single letter
RunicMixed ==
    /\ Len(RunicExpanded) >= 2
    /\ \E k \in DOMAIN RunicExpanded : Len(RunicExpanded[k]) = 1

C25_WitnessVariants ==
    /\ RunicCall
    /\ locals.parts_connecting = <<"FEHU", "FEOH", "FE", "F">>
    /\ last.ret = "fehuFeohFe-run"

C25_WitnessDescriptor ==
    /\ RunicCall
    /\ locals.parts_connecting = <<"DOTTED-N">>
    /\ locals.parts_runic = <<"DOTTED", "N">>
    /\ last.ret = "dottedN-run"

C25_WitnessSingle ==
    /\ RunicCall
    /\ locals.parts_runic = <<"V">>
    /\ last.ret = "v-run"

C25_WitnessSplitDropped ==
    /\ RunicCall
    /\ locals.parts_connecting = <<"OPEN-P">>
    /\ locals.parts_runic = <<"OPEN">>
    /\ last.ret = "open-run"

\* A call on a name of the script HEBREW that has ACCENT or PUNCTUATION and
\* keeps at least one word
HebrewCall ==
    /\ locals.entered
    /\ locals.parts # <<>>
    /\ locals.script_words_to_remove = <<"HEBREW">>
    /\ InList("ACCENT", locals.parts_split) \/ InList("PUNCTUATION", locals.parts_split)

\* The suffix word of the token of the name
HebrewWord ==
    IF InList("ACCENT", locals.parts_split) THEN "Accent" ELSE "Punctuation"

\* C26: for a HEBREW name the ACCENT or PUNCTUATION left by the category
\* filter is not among the words left at the end, and the output is the body,
\* the word Accent or Punctuation, and the script suffix.
C26_HebrewSuffix ==
    HebrewCall
    => /\ InList("ACCENT", locals.parts_combining)
              \/ InList("PUNCTUATION", locals.parts_combining)
       /\ ~InList("ACCENT", locals.parts)
       /\ ~InList("ACCENT", locals.parts_split) => ~InList("PUNCTUATION", locals.parts)
       /\ Len(locals.body) = TotalLen(locals.parts)
       /\ last.ret = locals.body \o HebrewWord \o "-heb"

\* HEBREW ACCENT GERESH
C26_Witness ==
    /\ HebrewCall
    /\ locals.parts_combining = <<"ACCENT", "GERESH">>
    /\ locals.parts = <<"GERESH">>
    /\ last.ret = "gereshAccent-heb"

\* HEBREW PUNCTUATION GERESH: the same body, another output
C26_WitnessPunctuation ==
    /\ HebrewCall
    /\ locals.parts_combining = <<"PUNCTUATION", "GERESH">>
    /\ locals.parts = <<"GERESH">>
    /\ last.ret = "gereshPunctuation-heb"

\* The words of the designation detected
DesignationSet ==
    {locals.script_words_to_remove[i] : i \in DOMAIN locals.script_words_to_remove}

\* No word of the designation detected is in parts
FreeOfDesignation(parts) == \A k \in DOMAIN parts : parts[k] \notin DesignationSet

\* C27: once a designation is detected, the tokens left are the tokens of
\* the name less every token that is a word of the designation, at the head
\* of the name or later in it, and no word of the designation is among the
\* words left at any later stage.
C27_ScriptWordsRemoved ==
    (locals.entered /\ locals.script_words_to_remove # <<>>)
    => /\ FreeOfDesignation(locals.parts_script)
       /\ Len(locals.parts_script)
              = Cardinality({k \in DOMAIN locals.parts_split :
                                locals.parts_split[k] \notin DesignationSet})
       /\ \A w \in {locals.parts_split[k] : k \in DOMAIN locals.parts_split} \ DesignationSet :
              Occurrences(locals.parts_script, w) = Occurrences(locals.parts_split, w)
       /\ FreeOfDesignation(locals.parts_connecting)
       /\ FreeOfDesignation(locals.parts)

\* ARABIC LETTER HAH WITH SMALL ARABIC LETTER TAH BELOW: the second ARABIC
\* is the sixth token
C27_Witness ==
    /\ locals.entered
    /\ locals.script_words_to_remove = <<"ARABIC">>
    /\ Occurrences(locals.parts_split, "ARABIC") = 2
    /\ locals.parts_split[6] = "ARABIC"
    /\ locals.parts = <<"HAH", "TAH", "BELOW">>
    /\ last.ret = "hahTahBelow-ar"

\* A designation of two words
C27_WitnessTwoWords ==
    /\ locals.entered
    /\ locals.script_words_to_remove = <<"CAUCASIAN", "ALBANIAN">>
    /\ locals.parts_script = <<"LETTER", "ALT">>
    /\ last.ret = "alt-aghb"

\* The suffix words a name can get, by place in the order
CombiningWords == {"", "Combining"}

HebrewWords == {"", "Accent", "Punctuation"}

SyllableWords == {"", "Syllable", "Syllabics"}

LetterWords == {"", "Letter"}

HangulWords == {"", "Cho", "Jung", "Jong"}

\* The number of suffix words set for the call
SuffixWordCount ==
    Cardinality({i \in 1..5 :
                    <<locals.is_combining,
                      locals.hebrew_suffix # "",
                      locals.syllable_suffix # "",
                      locals.letter_suffix # "",
                      locals.hangul_position # "">>[i]})

\* C28: the output is the body, then at most one word of each kind in the
\* order Combining, Accent/Punctuation, Syllable/Syllabics, Letter,
\* Cho/Jung/Jong, the words being those of the flags set, and then the
\* script suffix as its last part (the tanween rewrite of an Arabic name
\* aside).
C28_SuffixOrder ==
    (locals.entered /\ locals.parts # <<>>
        /\ ~(locals.script_suffix = "-ar" /\ EndsInTan(Assembled)))
    => \E combining \in CombiningWords, hebrew \in HebrewWords, syllable \in SyllableWords,
          letter \in LetterWords, hangul \in HangulWords :
          /\ (combining # "") = locals.is_combining
          /\ hebrew = locals.hebrew_suffix
          /\ syllable = locals.syllable_suffix
          /\ letter = locals.letter_suffix
          /\ hangul = locals.hangul_position
          /\ last.ret = locals.body \o combining \o hebrew \o syllable \o letter
                                    \o hangul \o locals.script_suffix

\* GREEK LETTER SYLLABLE KA: Syllable before Letter, the script suffix last
C28_Witness ==
    /\ locals.entered
    /\ SuffixWordCount = 2
    /\ locals.syllable_suffix = "Syllable"
    /\ locals.letter_suffix = "Letter"
    /\ last.ret = "kaSyllableLetter-gr"

\* The other pairs of suffix words, one word, and none
C28_WitnessCombining ==
    /\ locals.entered
    /\ SuffixWordCount = 2
    /\ locals.is_combining
    /\ last.ret = "kaCombiningSyllable"

C28_WitnessHebrew ==
    /\ locals.entered
    /\ SuffixWordCount = 2
    /\ locals.hebrew_suffix = "Accent"
    /\ last.ret = "kaAccentSyllable-heb"

C28_WitnessHangul ==
    /\ locals.entered
    /\ SuffixWordCount = 2
    /\ locals.hangul_position = "Cho"
    /\ last.ret = "kaSyllableCho-ko"

C28_WitnessOne ==
    /\ locals.entered
    /\ SuffixWordCount = 1
    /\ last.ret = "kaJong-ko"

C28_WitnessNone ==
    /\ locals.entered
    /\ SuffixWordCount = 0
    /\ last.ret = "symbolForNull-gr"

\* a is b with some of its items deleted: the items of a, in their order,
\* are found in b from left to right
RECURSIVE IsSubsequence(_, _)
IsSubsequence(a, b) ==
    IF a = <<>> THEN TRUE
    ELSE IF b = <<>> THEN FALSE
    ELSE IF Head(a) = Head(b) THEN IsSubsequence(Tail(a), Tail(b))
    ELSE IsSubsequence(a, Tail(b))

\* C29: after the removal of the script words, of the category words, of the
\* Hangul position word, of the case indicators and of the connecting words
\* the token list is a subsequence of the list before the stage and of the
\* tokens of the name: tokens are deleted, none is moved, doubled or put in.
\* Past the connecting-word filter only the Runic step does more than
\* delete.
C29_TokenOrder ==
    locals.entered
    => /\ IsSubsequence(locals.parts_script, locals.parts_split)
       /\ IsSubsequence(locals.parts_category, locals.parts_script)
       /\ IsSubsequence(locals.parts_hangul, locals.parts_category)
       /\ IsSubsequence(locals.parts_case, locals.parts_hangul)
       /\ IsSubsequence(locals.parts_connecting, locals.parts_case)
       /\ IsSubsequence(locals.parts_connecting, locals.parts_split)
       /\ (locals.script_suffix # "-run"
             => IsSubsequence(locals.parts, locals.parts_split))

\* ARABIC LETTER HAH WITH SMALL ARABIC LETTER TAH BELOW: the script word
\* goes at two places, then LETTER twice, SMALL and WITH, and the three
\* tokens left stand in the order of the name
C29_Witness ==
    /\ locals.entered
    /\ locals.parts_split = <<"ARABIC", "LETTER", "HAH", "WITH", "SMALL", "ARABIC",
                              "LETTER", "TAH", "BELOW">>
    /\ Len(locals.parts_script) = 7
    /\ Len(locals.parts_category) = 5
    /\ Len(locals.parts_case) = 4
    /\ locals.parts_connecting = <<"HAH", "TAH", "BELOW">>

\* A Hangul name loses its position word at the Hangul stage
C29_WitnessHangul ==
    /\ locals.entered
    /\ locals.hangul_position # ""
    /\ Len(locals.parts_hangul) < Len(locals.parts_category)

\* A stage that deletes nothing leaves the list as it is
C29_WitnessUnchanged ==
    /\ locals.entered
    /\ locals.parts_split # <<>>
    /\ locals.parts = locals.parts_split

\* The Runic step does more than delete: the pieces of LONG-BRANCH-OSS are
\* no tokens of the name
C29_WitnessRunic ==
    /\ locals.entered
    /\ locals.script_suffix = "-run"
    /\ locals.parts_connecting = <<"LONG-BRANCH-OSS", "O">>
    /\ locals.parts = <<"LONG", "BRANCH", "OSS">>
    /\ ~IsSubsequence(locals.parts, locals.parts_split)

\* The words a stage can strip: the category words, the case indicators, the
\* filler words and the special words
StrippableWords ==
    DROP_CATEGORIES \cup CASE_INDICATORS_loaded \cup FillerWords
    \cup {"SYLLABICS", "COMBINING"} \cup HangulPositionWords

\* After the script words are removed a token is left that is none of them
HasContent ==
    \E k \in DOMAIN locals.parts_script : locals.parts_script[k] \notin StrippableWords

\* The k-th word left stands in the body, in whatever case
InBody(k) == str_lower(Segment(locals.body, locals.parts, k)) = str_lower(locals.parts[k])

\* The k-th word left is a token of the name
IsToken(k) == InList(locals.parts[k], locals.parts_split)

\* The k-th word left is a piece, between hyphens, of a hyphenated token
IsHyphenPiece(k) ==
    \E j \in DOMAIN locals.parts_split :
        /\ str_contains(locals.parts_split[j], "-")
        /\ InList(locals.parts[k], str_split_sep(locals.parts_split[j], "-"))

\* The output is the uni+hex fallback of the codepoint
IsFallback == last.ret = FallbackName(last.decimal_unicode)

\* C30 as stated: a named codepoint with a content token gets a name that
\* is not the fallback and whose body holds a token of the name, and the
\* fallback is returned for a named codepoint only when no token is content.
C30_ContentKept ==
    (NamedCall(last) /\ locals.entered)
    => /\ HasContent
           => /\ locals.parts # <<>>
              /\ ~IsFallback
              /\ \E k \in DOMAIN locals.parts : IsToken(k) /\ InBody(k)
       /\ IsFallback => ~HasContent

\* C30: a named codepoint with a content token gets a name that is not the
\* fallback and whose body holds a token of the name or, for a Runic name,
\* a piece of a hyphenated token; the fallback is returned for a named
\* codepoint only when no token is content.
C30_ContentAmended ==
    (NamedCall(last) /\ locals.entered)
    => /\ HasContent
           => /\ locals.parts # <<>>
              /\ ~IsFallback
              /\ \E k \in DOMAIN locals.parts :
                     /\ InBody(k)
                     /\ \/ IsToken(k)
                        \/ locals.script_suffix = "-run" /\ IsHyphenPiece(k)
       /\ IsFallback => ~HasContent

\* RUNIC LETTER DOTTED-N: the content token is written as its two pieces
C30_Witness ==
    /\ NamedCall(last)
    /\ locals.entered
    /\ HasContent
    /\ locals.parts_script = <<"LETTER", "DOTTED-N">>
    /\ locals.parts = <<"DOTTED", "N">>
    /\ \A k \in DOMAIN locals.parts : ~IsToken(k) /\ IsHyphenPiece(k) /\ InBody(k)
    /\ last.ret = "dottedN-run"

\* A content token beside strippable ones is written in the body
C30_WitnessToken ==
    /\ NamedCall(last)
    /\ locals.entered
    /\ HasContent
    /\ locals.parts = <<"HAH", "TAH", "BELOW">>
    /\ \A k \in DOMAIN locals.parts : IsToken(k) /\ InBody(k)
    /\ ~IsFallback

\* A Runic name that loses a single letter keeps a token
C30_WitnessRunicToken ==
    /\ NamedCall(last)
    /\ locals.entered
    /\ HasContent
    /\ locals.parts_connecting = <<"FEHU", "FEOH", "FE", "F">>
    /\ locals.parts = <<"FEHU", "FEOH", "FE">>
    /\ ~IsFallback

\* SHARADA SEPARATOR: a script word and a category word, and the fallback
C30_WitnessFallback ==
    /\ NamedCall(last)
    /\ locals.entered
    /\ ~HasContent
    /\ locals.parts_split = <<"SHARADA", "SEPARATOR">>
    /\ locals.parts_script = <<"SEPARATOR">>
    /\ IsFallback
    /\ last.ret = "uni111C8"

\* Strippable tokens only, and still a name: the connecting words stay when
\* nothing else is left
C30_WitnessStrippableKept ==
    /\ NamedCall(last)
    /\ locals.entered
    /\ ~HasContent
    /\ locals.parts # <<>>
    /\ ~IsFallback
====
